---------------------------- MODULE Spec2Model ----------------------------
(***************************************************************************)
(* A model of tm-parser: the rewindable token stream and the rule          *)
(* combinator engine (src/lexer/utils.py, src/tm/parser/base_rules.py),    *)
(* and the macro-expanding lexer (src/lexer/lexer.py with the token kinds  *)
(* of src/tm/lexer/tokens.py).                                             *)
(***************************************************************************)
EXTENDS Integers, Sequences, FiniteSets, TLC

(***************************************************************************)
(* Bounds of the model.                                                    *)
(***************************************************************************)
\* longest token stream enumerated exhaustively
MaxLen == 2
\* next() is not called by the driver once the history is this long
MaxGiven == 2
\* most lines of a source text enumerated exhaustively
MaxLines == 2
\* the lexer pushes no Context once the stack is this deep
MaxDepth == 6

\* blocks are nested at most this deep in the streams that are built of them
MaxNest == 2

(***************************************************************************)
(* Tokens, as the parser sees them: a kind and a processed value.  The     *)
(* end-of-stream sentinel is Python's None.                                *)
(***************************************************************************)
Tok(kind, value) == [kind |-> kind, value |-> value]

END == Tok("None", "None")

\* the tokens the tests build their streams from
T ==
  [ foo |-> Tok("Name", "foo"), bar |-> Tok("Name", "bar"),
    this |-> Tok("Name", "this"), no |-> Tok("Name", "no"),
    ws |-> Tok("WhiteSpace", " "), ws2 |-> Tok("WhiteSpace", "  "),
    lt |-> Tok("Character", "<"), eq |-> Tok("Character", "="),
    ob |-> Tok("Character", "{"), cb |-> Tok("Character", "}") ]

\* the tokens from which every stream of at most MaxLen tokens is built
Alphabet == {T.foo, T.bar, T.ws, T.lt}

\* the token streams of test_base_rules.py, two with the characters of '<=',
\* and two of test_and_rule_skip behind white space
TestStreams ==
  { <<T.this, T.ws, T.ob, T.ws, T.no, T.ws, T.cb>>,
    <<T.this, T.ws, T.ob, T.ws, T.foo, T.ws, T.bar, T.ws, T.cb, T.ws2>>,
    <<T.this, T.ws, T.ob>>,
    <<T.this, T.ob>>,
    <<T.foo, T.ws, T.foo, T.ws, T.foo, T.ws, T.bar>>,
    <<T.foo, T.ws, T.bar>>,
    <<T.lt, T.eq>>,
    <<T.foo, T.lt, T.eq, T.bar>>,
    <<T.ws, T.this, T.ob>>,
    <<T.ws, T.this, T.ws, T.ob>> }

RECURSIVE Nested(_)
\* the tokens of '{ }' with k blocks, one in the other, written in it, each
\* brace set off by white space as attributes() lays a recursive block out
Nested(k) ==
  IF k = 0 THEN <<T.ob, T.ws, T.cb>>
  ELSE <<T.ob, T.ws>> \o Nested(k - 1) \o <<T.ws, T.cb>>

Streams ==
  UNION { [1..n -> Alphabet] : n \in 0..MaxLen } \cup TestStreams
    \cup { Nested(k) : k \in 0..MaxNest }

(***************************************************************************)
(* RewindableStream (src/lexer/utils.py).  A stream value s has the        *)
(* fields of the object: given (history), peeked (replay stack, top last)  *)
(* and stream (what the producer has yet to yield; the producer yields     *)
(* None for ever once it is empty).  Four more fields observe one          *)
(* operation: fault (rewind's assertion failed), rew (tokens rewound),     *)
(* pulls (calls of next(self.stream)) and tried (the alternatives a Choice *)
(* attempted).                                                             *)
(***************************************************************************)
Pull(stream) ==
  IF stream = <<>> THEN [tok |-> END, stream |-> <<>>]
  ELSE [tok |-> Head(stream), stream |-> Tail(stream)]

Front(q) == SubSeq(q, 1, Len(q) - 1)

Last(q) == q[Len(q)]

SNext(s) ==
  IF s.peeked # <<>>
  THEN [tok |-> Last(s.peeked),
        s |-> [s EXCEPT !.peeked = Front(s.peeked),
                        !.given = Append(s.given, Last(s.peeked))]]
  ELSE LET p == Pull(s.stream)
       IN  [tok |-> p.tok,
            s |-> [s EXCEPT !.stream = p.stream, !.pulls = s.pulls + 1,
                            !.given = Append(s.given, p.tok)]]

SPeekAlwaysPulls(s) ==
  LET p == Pull(s.stream)
  IN  [tok |-> p.tok,
       s |-> [s EXCEPT !.stream = p.stream, !.pulls = s.pulls + 1,
                       !.peeked = Append(s.peeked, p.tok)]]

SPeek(s) ==
  IF s.peeked # <<>>
  THEN [tok |-> Last(s.peeked), s |-> s]
  ELSE LET p == Pull(s.stream)
       IN  [tok |-> p.tok,
            s |-> [s EXCEPT !.stream = p.stream, !.pulls = s.pulls + 1,
                            !.peeked = Append(s.peeked, p.tok)]]

RECURSIVE RewindLoop(_, _)
RewindLoop(s, n) ==
  IF n = 0 THEN s
  ELSE RewindLoop([s EXCEPT !.peeked = Append(s.peeked, Last(s.given)),
                            !.given = Front(s.given)], n - 1)

SRewindInOrder(s, n) ==
  [s EXCEPT !.peeked = s.peeked \o SubSeq(s.given, Len(s.given) - n + 1, Len(s.given)),
            !.given = SubSeq(s.given, 1, Len(s.given) - n),
            !.rew = s.rew + n]

SRewind(s, n) ==
  IF Len(s.given) < n THEN [s EXCEPT !.fault = TRUE]
  ELSE [RewindLoop(s, n) EXCEPT !.rew = s.rew + n]

SFlush(s) == [s EXCEPT !.given = <<>>]

(***************************************************************************)
(* Rules (src/tm/parser/base_rules.py).  A rule is a record: k its class   *)
(* (E, V, N, C, And, Or), arg the token type of V, the name of N or the    *)
(* characters of C, rules the sub-rule instances of an AndRule or OrRule   *)
(* and skip the SkipBehavior flags of an AndRule.  A sub-rule instance     *)
(* names its rule and carries is_optional and is_repeatable.               *)
(***************************************************************************)
R(id) == [r |-> id, opt |-> FALSE, rep |-> FALSE]

Opt(id) == [r |-> id, opt |-> TRUE, rep |-> FALSE]

Rep(id) == [r |-> id, opt |-> FALSE, rep |-> TRUE]

OptRep(id) == [r |-> id, opt |-> TRUE, rep |-> TRUE]

\* SkipBehavior.NORMAL = OPTIONAL_FIRST | MIDDLE
NORMAL == {"OPTIONAL_FIRST", "MIDDLE"}

\* SkipBehavior.OPTIONAL = OPTIONAL_FIRST | OPTIONAL_MIDDLE
OPTIONAL == {"OPTIONAL_FIRST", "OPTIONAL_MIDDLE"}

\* SkipBehavior.NO_SKIP = NONE
NO_SKIP == {}

\* make_rule turning Self into an instance that is neither optional nor
\* repeatable
MakeRuleRequired(r, s) == IF r.r = "Self" THEN R(s) ELSE r

\* make_rule for an entry of a rule list of class s that is a rule or the
\* marker Self (an entry named "Self"): Self becomes s(optional=True,
\* repeatable=True), a rule is returned as it is
MakeRule(r, s) == IF r.r = "Self" THEN OptRep(s) ELSE r

Leaf(k, arg) == [k |-> k, arg |-> arg, rules |-> <<>>, skip |-> NORMAL]

AndR(rules, skip) == [k |-> "And", arg |-> "", rules |-> rules, skip |-> skip]

OrR(rules) == [k |-> "Or", arg |-> "", rules |-> rules, skip |-> NORMAL]

\* the rules of test_base_rules.py, and a few more built the same way
Rules ==
  [ r_eoi    |-> Leaf("E", "None"),
    r_foo    |-> Leaf("N", "foo"),
    r_bar    |-> Leaf("N", "bar"),
    r_this   |-> Leaf("N", "this"),
    r_name   |-> Leaf("V", "Name"),
    r_ob     |-> Leaf("C", "{"),
    r_cb     |-> Leaf("C", "}"),
    r_lte    |-> Leaf("C", "<="),
    empty_and |-> AndR(<<>>, NORMAL),
    empty_or  |-> OrR(<<>>),
    FooBar   |-> AndR(<<R("r_foo"), R("r_bar")>>, NORMAL),
    FooFoo   |-> AndR(<<R("r_foo"), R("r_foo")>>, NORMAL),
    Foo      |-> AndR(<<R("r_foo")>>, NORMAL),
    Foo2     |-> AndR(<<Rep("Foo")>>, NORMAL),
    Foo0     |-> AndR(<<Opt("Foo")>>, NORMAL),
    FooOrBar |-> OrR(<<R("r_foo"), R("r_bar")>>),
    ThisBrace |-> AndR(<<R("r_this"), R("r_ob")>>, NORMAL),
    ThisBraceNoSkip |-> AndR(<<R("r_this"), R("r_ob")>>, NO_SKIP),
    ThisBraceOptionalSkip |-> AndR(<<R("r_this"), R("r_ob")>>, OPTIONAL),
    ThisFooBar |-> AndR(<<R("r_this"), R("r_ob"), Rep("FooOrBar"),
                          R("r_cb"), R("r_eoi")>>, NORMAL),
    FooOrFooBar |-> OrR(<<R("r_foo"), R("FooBar")>>),
    FooLte   |-> AndR(<<R("r_foo"), R("r_lte")>>, OPTIONAL),
    NameLteBar |-> AndR(<<R("r_name"), Opt("r_lte"), OptRep("r_bar"),
                          R("r_eoi")>>, NORMAL),
    LteOrEq  |-> OrR(<<R("r_lte"), R("FooLte"), R("r_name")>>),
    \* a repeatable sub-rule that matches without a token, in a Sequence that
    \* asks for no white space between its sub-rules
    Empties  |-> AndR(<<Rep("empty_and")>>, OPTIONAL),
    \* rules = [*attributes(FooOrBar, recursive=True)], through the
    \* comprehension of AndRule.__init_subclass__
    Block    |-> AndR([i \in 1..4 |->
                        MakeRule(<<R("r_ob"), OptRep("FooOrBar"), R("Self"),
                                   R("r_cb")>>[i], "Block")], NORMAL) ]

RuleIds == DOMAIN Rules

AndRules == { id \in RuleIds : Rules[id].k = "And" }

OrRules == { id \in RuleIds : Rules[id].k = "Or" }

LeafRules == { id \in RuleIds : Rules[id].k \in {"E", "V", "N", "C"} }

\* AndRule.whitespace_tokens
whitespace_tokens == {"WhiteSpace", "EndOfLine"}

\* The value None, and the values process() builds, written as text.
None == "None"

RECURSIVE Join(_)
Join(values) ==
  IF values = <<>> THEN "" ELSE Head(values) \o "," \o Join(Tail(values))

\* AndRule.process: args or None
AndProcess(values) == IF values = <<>> THEN None ELSE "(" \o Join(values) \o ")"

NoMatch(s) == [ok |-> FALSE, value |-> None, count |-> 0, s |-> s]

\* BottomRule.condition with an E that takes any token
ConditionAnyEnd(rule, token) ==
  CASE rule.k = "E" -> TRUE
    [] rule.k = "V" -> token.kind = rule.arg
    [] rule.k = "N" -> token.kind = "Name" /\ token.value = rule.arg
    [] OTHER -> FALSE

\* BottomRule.condition, with the overrides of E, V and N
Condition(rule, token) ==
  CASE rule.k = "E" -> token.kind = "None"
    [] rule.k = "V" -> token.kind = rule.arg
    [] rule.k = "N" -> token.kind = "Name" /\ token.value = rule.arg
    [] OTHER -> FALSE

\* BottomRule.match
BottomMatch(rule, s) ==
  LET p == SPeek(s)
  IN  IF ~Condition(rule, p.tok) THEN NoMatch(p.s)
      ELSE LET n == SNext(p.s)
           IN  [ok |-> TRUE, value |-> n.tok.value, count |-> 1, s |-> n.s]

RECURSIVE CLoopNoRewind(_, _, _)
CLoopNoRewind(rule, i, s) ==
  IF i > Len(rule.arg)
  THEN [ok |-> TRUE, value |-> rule.arg, count |-> Len(rule.arg), s |-> s]
  ELSE LET n == SNext(s)
       IN  IF ~(n.tok.kind = "Character" /\ n.tok.value = SubSeq(rule.arg, i, i))
           THEN NoMatch(SRewind(n.s, i - 1))
           ELSE CLoopNoRewind(rule, i + 1, n.s)

RECURSIVE CLoopRewindsOneMore(_, _, _)
\* C.match putting back one token more than it has taken
CLoopRewindsOneMore(rule, i, s) ==
  IF i > Len(rule.arg)
  THEN [ok |-> TRUE, value |-> rule.arg, count |-> Len(rule.arg), s |-> s]
  ELSE LET n == SNext(s)
       IN  IF ~(n.tok.kind = "Character" /\ n.tok.value = SubSeq(rule.arg, i, i))
           THEN NoMatch(SRewind(n.s, i + 1))
           ELSE CLoopRewindsOneMore(rule, i + 1, n.s)

\* C.match: the loop over enumerate(self.chars), from the i-th character on
RECURSIVE CLoop(_, _, _)
CLoop(rule, i, s) ==
  IF i > Len(rule.arg)
  THEN [ok |-> TRUE, value |-> rule.arg, count |-> Len(rule.arg), s |-> s]
  ELSE LET n == SNext(s)
       IN  IF ~(n.tok.kind = "Character" /\ n.tok.value = SubSeq(rule.arg, i, i))
           THEN NoMatch(SRewind(n.s, i))
           ELSE CLoop(rule, i + 1, n.s)

CMatch(rule, s) == CLoop(rule, 1, s)

\* SkipBehavior.validate with every position taken as a later one
ValidateAsLater(skip, first, count) ==
  "OPTIONAL_MIDDLE" \in skip
    \/ (count = 0 /\ "MIDDLE" \notin skip) \/ (count > 0 /\ "MIDDLE" \in skip)

\* SkipBehavior.validate
Validate(skip, first, count) ==
  LET optional == IF first THEN "OPTIONAL_FIRST" \in skip
                  ELSE "OPTIONAL_MIDDLE" \in skip
      p == IF first THEN "FIRST" \in skip ELSE "MIDDLE" \in skip
  IN  optional \/ (count = 0 /\ ~p) \/ (count > 0 /\ p)

\* AndRule.match_once: the loop that consumes the tokens to skip
RECURSIVE SkipLoop(_, _)
SkipLoop(s, s_count) ==
  LET p == SPeek(s)
  IN  IF p.tok.kind \in whitespace_tokens
      THEN SkipLoop(SNext(p.s).s, s_count + 1)
      ELSE [s |-> p.s, s_count |-> s_count]

RECURSIVE MatchRule(_, _)
RECURSIVE MatchOnce(_, _, _, _, _)
RECURSIVE Repeat(_, _, _, _, _)
RECURSIVE AndLoop(_, _, _, _, _)
RECURSIVE OrLoop(_, _, _)

MatchOnceNoRewind(id, sub, s, value_acc, is_first) ==
  LET sk == SkipLoop(s, 0)
  IN  IF ~Validate(Rules[id].skip, is_first, sk.s_count)
      THEN [ok |-> FALSE, count |-> 0, s |-> SRewind(sk.s, sk.s_count),
            values |-> value_acc]
      ELSE LET m == MatchRule(sub.r, sk.s)
           IN  IF ~m.ok
               THEN [ok |-> FALSE, count |-> 0, s |-> m.s, values |-> value_acc]
               ELSE [ok |-> TRUE, count |-> sk.s_count + m.count, s |-> m.s,
                     values |-> Append(value_acc, m.value)]

\* match_once returning the count of the sub-rule without the skipped tokens
MatchOnceSkipsUncounted(id, sub, s, value_acc, is_first) ==
  LET sk == SkipLoop(s, 0)
  IN  IF ~Validate(Rules[id].skip, is_first, sk.s_count)
      THEN [ok |-> FALSE, count |-> 0, s |-> SRewind(sk.s, sk.s_count),
            values |-> value_acc]
      ELSE LET m == MatchRule(sub.r, sk.s)
           IN  IF ~m.ok
               THEN [ok |-> FALSE, count |-> 0, s |-> SRewind(m.s, sk.s_count),
                     values |-> value_acc]
               ELSE [ok |-> TRUE, count |-> m.count, s |-> m.s,
                     values |-> Append(value_acc, m.value)]

\* match_once putting None in the accumulator for a sub-rule that failed
MatchOnceAppendsNone(id, sub, s, value_acc, is_first) ==
  LET sk == SkipLoop(s, 0)
  IN  IF ~Validate(Rules[id].skip, is_first, sk.s_count)
      THEN [ok |-> FALSE, count |-> 0, s |-> SRewind(sk.s, sk.s_count),
            values |-> Append(value_acc, None)]
      ELSE LET m == MatchRule(sub.r, sk.s)
           IN  IF ~m.ok
               THEN [ok |-> FALSE, count |-> 0, s |-> SRewind(m.s, sk.s_count),
                     values |-> Append(value_acc, None)]
               ELSE [ok |-> TRUE, count |-> sk.s_count + m.count, s |-> m.s,
                     values |-> Append(value_acc, m.value)]

\* AndRule.match_once
MatchOnce(id, sub, s, value_acc, is_first) ==
  LET sk == SkipLoop(s, 0)
  IN  IF ~Validate(Rules[id].skip, is_first, sk.s_count)
      THEN [ok |-> FALSE, count |-> 0, s |-> SRewind(sk.s, sk.s_count),
            values |-> value_acc]
      ELSE LET m == MatchRule(sub.r, sk.s)
           IN  IF ~m.ok
               THEN [ok |-> FALSE, count |-> 0, s |-> SRewind(m.s, sk.s_count),
                     values |-> value_acc]
               ELSE [ok |-> TRUE, count |-> sk.s_count + m.count, s |-> m.s,
                     values |-> Append(value_acc, m.value)]

RECURSIVE RepeatAsFirst(_, _, _, _, _)
\* the loop of retries with is_first=True
RepeatAsFirst(id, sub, s, values, count) ==
  LET Retried(m) ==
        IF m.ok
        THEN IF <<m.s.given, m.s.peeked, m.s.stream>> = <<s.given, s.peeked, s.stream>>
             THEN [s |-> [m.s EXCEPT !.loops = TRUE], values |-> m.values,
                   count |-> count + m.count]
             ELSE RepeatAsFirst(id, sub, m.s, m.values, count + m.count)
        ELSE [s |-> m.s, values |-> m.values, count |-> count + m.count]
  IN  Retried(MatchOnce(id, sub, s, values, TRUE))

\* AndRule.match: the loop "while is_match and rule.is_repeatable".  A retry
\* that matches and leaves the stream as it found it is followed by the same
\* retry again and again: the loop does not end, which s.loops records
Repeat(id, sub, s, values, count) ==
  LET Retried(m) ==
        IF m.ok
        THEN IF <<m.s.given, m.s.peeked, m.s.stream>> = <<s.given, s.peeked, s.stream>>
             THEN [s |-> [m.s EXCEPT !.loops = TRUE], values |-> m.values,
                   count |-> count + m.count]
             ELSE Repeat(id, sub, m.s, m.values, count + m.count)
        ELSE [s |-> m.s, values |-> m.values, count |-> count + m.count]
  IN  Retried(MatchOnce(id, sub, s, values, FALSE))

RECURSIVE AndLoopAllRequired(_, _, _, _, _)
\* the loop of AndRule.match without its test of rule.is_optional
AndLoopAllRequired(id, i, s, values, count) ==
  IF i > Len(Rules[id].rules)
  THEN [ok |-> TRUE, value |-> AndProcess(values), count |-> count, s |-> s]
  ELSE LET sub == Rules[id].rules[i]
           Repeated(rp) ==
             IF rp.s.loops THEN NoMatch(rp.s)
             ELSE AndLoopAllRequired(id, i + 1, rp.s, rp.values, rp.count)
           Matched(m, c) ==
             IF ~m.ok
             THEN NoMatch(SRewind(m.s, c))
             ELSE IF m.ok /\ sub.rep
                  THEN Repeated(Repeat(id, sub, m.s, m.values, c))
                  ELSE AndLoopAllRequired(id, i + 1, m.s, m.values, c)
           Counted(m) == Matched(m, count + m.count)
       IN  Counted(MatchOnce(id, sub, s, values, i = 1))

\* AndRule.match: the loop over enumerate(self.rules), from the i-th on
AndLoop(id, i, s, values, count) ==
  IF i > Len(Rules[id].rules)
  THEN [ok |-> TRUE, value |-> AndProcess(values), count |-> count, s |-> s]
  ELSE LET sub == Rules[id].rules[i]
           Repeated(rp) ==
             IF rp.s.loops THEN NoMatch(rp.s)
             ELSE AndLoop(id, i + 1, rp.s, rp.values, rp.count)
           Matched(m, c) ==
             IF ~m.ok /\ ~sub.opt
             THEN NoMatch(SRewind(m.s, c))
             ELSE IF m.ok /\ sub.rep
                  THEN Repeated(Repeat(id, sub, m.s, m.values, c))
                  ELSE AndLoop(id, i + 1, m.s, m.values, c)
           Counted(m) == Matched(m, count + m.count)
       IN  Counted(MatchOnce(id, sub, s, values, i = 1))

AndMatch(id, s) == AndLoop(id, 1, s, <<>>, 0)

RECURSIVE OrLoopLongest(_, _, _)
OrLoopLongest(id, i, s) ==
  IF i > Len(Rules[id].rules) THEN NoMatch(s)
  ELSE LET m == MatchRule(Rules[id].rules[i].r,
                          [s EXCEPT !.tried = Append(s.tried, <<id, i>>)])
           rest == OrLoopLongest(id, i + 1, [s EXCEPT !.tried = m.s.tried])
       IN  IF m.ok /\ ~(rest.ok /\ rest.count > m.count) THEN m ELSE rest

\* OrRule.match: the loop over self.rules, from the i-th on
OrLoop(id, i, s) ==
  IF i > Len(Rules[id].rules) THEN NoMatch(s)
  ELSE LET m == MatchRule(Rules[id].rules[i].r,
                          [s EXCEPT !.tried = Append(s.tried, <<id, i>>)])
       IN  IF m.ok THEN m ELSE OrLoop(id, i + 1, m.s)

OrMatch(id, s) == OrLoop(id, 1, s)

\* rule.match(x, token_s), by the class of the rule
MatchRule(id, s) ==
  CASE Rules[id].k = "And" -> AndMatch(id, s)
    [] Rules[id].k = "Or" -> OrMatch(id, s)
    [] Rules[id].k = "C" -> CMatch(Rules[id], s)
    [] OTHER -> BottomMatch(Rules[id], s)

(***************************************************************************)
(* Text.  A text is a TLA+ string; positions count from 0 as in Python.    *)
(* The texts of the model hold no backslash and no tab, so that            *)
(* json.loads of a double-quoted literal is the text between its quotes.   *)
(***************************************************************************)
\* string[i], or "" past the end
Ch(s, i) == IF i >= 0 /\ i < Len(s) THEN SubSeq(s, i + 1, i + 1) ELSE ""

\* string[i:j]
Slice(s, i, j) == IF i >= j THEN "" ELSE SubSeq(s, i + 1, j)

\* string[i:]
From(s, i) == Slice(s, i, Len(s))

StartsWith(s, i, lit) == i + Len(lit) <= Len(s) /\ Slice(s, i, i + Len(lit)) = lit

\* [a-zA-Z_]
Letter ==
  { "a", "b", "c", "d", "e", "f", "g", "h", "i", "j", "k", "l", "m", "n", "o",
    "p", "q", "r", "s", "t", "u", "v", "w", "x", "y", "z", "_",
    "A", "B", "C", "D", "E", "F", "G", "H", "I", "J", "K", "L", "M", "N", "O",
    "P", "Q", "R", "S", "T", "U", "V", "W", "X", "Y", "Z" }

\* \d
Digit == { "0", "1", "2", "3", "4", "5", "6", "7", "8", "9" }

\* \s
Space == { " ", "\n", "\t" }

\* the number of characters from position i on that are in (in = TRUE) or not
\* in (in = FALSE) the class, "" (the end) being in no class and no complement
RECURSIVE Run(_, _, _, _)
Run(s, i, class, in) ==
  IF i < Len(s) /\ ((Ch(s, i) \in class) = in) THEN 1 + Run(s, i + 1, class, in)
  ELSE 0

\* $ : the end of the string, or just before a newline that ends it
AtEnd(s, i) == i = Len(s) \/ (i = Len(s) - 1 /\ Ch(s, i) = "\n")

\* the least element of a non-empty set of numbers
Least(S) == CHOOSE k \in S : \A j \in S : k <= j

(***************************************************************************)
(* Token patterns (src/tm/lexer/tokens.py).  M_<kind>(s, i) is the length  *)
(* of the match of the kind's pattern anchored at position i of s, or -1.  *)
(***************************************************************************)
\* Name.pattern  [a-zA-Z_]\w*
M_Name(s, i) == IF Ch(s, i) \in Letter THEN 1 + Run(s, i + 1, Letter \cup Digit, TRUE) ELSE -1

\* PositiveInteger.pattern  [1-9]\d*
M_PositiveInteger(s, i) ==
  IF Ch(s, i) \in Digit \ {"0"} THEN 1 + Run(s, i + 1, Digit, TRUE) ELSE -1

\* WhiteSpace.pattern  \s+?(?=($|[^\s]|[\n]))
M_WhiteSpace(s, i) ==
  LET r == Run(s, i, Space, TRUE)
      K == { k \in 1..r : \/ AtEnd(s, i + k)
                          \/ (i + k < Len(s) /\ Ch(s, i + k) \notin Space)
                          \/ Ch(s, i + k) = "\n" }
  IN  IF K = {} THEN -1 ELSE Least(K)

\* Character.pattern  .
M_Character(s, i) == IF i < Len(s) /\ Ch(s, i) # "\n" THEN 1 ELSE -1

\* DoubleQuotedString.pattern  "(\\"|[^"])*"  on a text without backslashes
M_DoubleQuotedString(s, i) ==
  IF Ch(s, i) # "\"" THEN -1
  ELSE LET r == Run(s, i + 1, {"\""}, FALSE)
       IN  IF Ch(s, i + 1 + r) = "\"" THEN r + 2 ELSE -1

\* a pattern that is a literal text
M_Lit(s, i, lit) == IF StartsWith(s, i, lit) THEN Len(lit) ELSE -1

\* SharpComment.pattern  #.*
M_SharpComment(s, i) ==
  IF Ch(s, i) = "#" THEN 1 + Run(s, i + 1, {"\n"}, FALSE) ELSE -1

\* MacroDefinitionStart.pattern  ^\s*macro\s+([a-zA-Z_]\w*)\s+\[
M_MacroDefinitionStart(s, i) ==
  LET a == Run(s, 0, Space, TRUE)
      b == Run(s, a + 5, Space, TRUE)
      n == M_Name(s, a + 5 + b)
      c == Run(s, a + 5 + b + n, Space, TRUE)
  IN  IF /\ i = 0
         /\ StartsWith(s, a, "macro")
         /\ b >= 1 /\ n >= 1 /\ c >= 1
         /\ Ch(s, a + 5 + b + n + c) = "["
      THEN a + 5 + b + n + c + 1
      ELSE -1

\* MacroDefinitionStart.process: group 1 of the pattern
MacroDefinitionName(text) ==
  LET a == Run(text, 0, Space, TRUE)
      b == Run(text, a + 5, Space, TRUE)
  IN  Slice(text, a + 5 + b, a + 5 + b + M_Name(text, a + 5 + b))

\* MacroDefinitionEnd.pattern  ]\s+$
M_MacroDefinitionEnd(s, i) ==
  LET r == Run(s, i + 1, Space, TRUE)
  IN  IF Ch(s, i) = "]" /\ r >= 1 /\ i + 1 + r = Len(s) THEN 1 + r ELSE -1

\* MacroContent.pattern  [^\]#]+
M_MacroContent(s, i) ==
  LET r == Run(s, i, {"]", "#"}, FALSE) IN IF r >= 1 THEN r ELSE -1

\* MacroArgument.pattern  \$\{[1-9]\d*}
M_MacroArgument(s, i) ==
  LET d == Run(s, i + 2, Digit, TRUE)
  IN  IF /\ StartsWith(s, i, "${")
         /\ d >= 1 /\ Ch(s, i + 2) # "0"
         /\ Ch(s, i + 2 + d) = "}"
      THEN d + 3
      ELSE -1

\* MacroCallStart.pattern  \${(\??[a-zA-Z_]\w*)(?=(\s|}|$))
M_MacroCallStart(s, i) ==
  LET q == IF Ch(s, i + 2) = "?" THEN 1 ELSE 0
      n == M_Name(s, i + 2 + q)
      e == i + 2 + q + n
  IN  IF /\ StartsWith(s, i, "${")
         /\ n >= 1
         /\ (Ch(s, e) \in Space \/ Ch(s, e) = "}" \/ AtEnd(s, e))
      THEN 2 + q + n
      ELSE -1

\* _anything_up_to(pattern)  \n|.+?(?=(pattern|$))\n?  where stops holds the
\* positions at which pattern matches
AnythingUpTo(s, i, stops) ==
  IF Ch(s, i) = "\n" THEN 1
  ELSE LET r == Run(s, i, {"\n"}, FALSE)
           K == { k \in 1..r : i + k \in stops \/ AtEnd(s, i + k) }
       IN  IF K = {} THEN -1
           ELSE Least(K) + (IF Ch(s, i + Least(K)) = "\n" THEN 1 ELSE 0)

\* MultilineStringContent.pattern
M_MultilineStringContent(s, i) ==
  AnythingUpTo(s, i, { j \in i..Len(s) : M_Lit(s, j, "->8-") >= 0 })

\* NonMacroCall.pattern
M_NonMacroCall(s, i) ==
  AnythingUpTo(s, i, { j \in i..Len(s) : \/ M_MacroCallStart(s, j) >= 0
                                         \/ M_MacroArgument(s, j) >= 0
                                         \/ Ch(s, j) = "#" })

\* Include.pattern  ^\s*include\s+"(\\"|[^"])*"\s*$
M_Include(s, i) ==
  LET a == Run(s, 0, Space, TRUE)
      b == Run(s, a + 7, Space, TRUE)
      q == M_DoubleQuotedString(s, a + 7 + b)
      c == Run(s, a + 7 + b + q, Space, TRUE)
  IN  IF /\ i = 0
         /\ StartsWith(s, a, "include")
         /\ b >= 1 /\ q >= 2
         /\ a + 7 + b + q + c = Len(s)
      THEN Len(s)
      ELSE -1

\* the length of the match of a kind's pattern
MatchLen(kind, s, i) ==
  CASE kind = "DoubleQuotedString" -> M_DoubleQuotedString(s, i)
    [] kind = "MultilineStringStart" -> M_Lit(s, i, "-8<-")
    [] kind = "MultilineStringEnd" -> M_Lit(s, i, "->8-")
    [] kind = "MultilineStringContent" -> M_MultilineStringContent(s, i)
    [] kind = "Name" -> M_Name(s, i)
    [] kind = "PositiveInteger" -> M_PositiveInteger(s, i)
    [] kind = "EndOfLine" -> M_Lit(s, i, "\n")
    [] kind = "WhiteSpace" -> M_WhiteSpace(s, i)
    [] kind = "Character" -> M_Character(s, i)
    [] kind = "MacroDefinitionStart" -> M_MacroDefinitionStart(s, i)
    [] kind = "MacroDefinitionEnd" -> M_MacroDefinitionEnd(s, i)
    [] kind = "MacroContent" -> M_MacroContent(s, i)
    [] kind = "MacroArgument" -> M_MacroArgument(s, i)
    [] kind = "MacroCallStart" -> M_MacroCallStart(s, i)
    [] kind = "MacroCallEnd" -> M_Lit(s, i, "}")
    [] kind = "SharpComment" -> M_SharpComment(s, i)
    [] kind = "NonMacroCall" -> M_NonMacroCall(s, i)
    [] kind = "Include" -> M_Include(s, i)

\* MODE_TOKENS (src/lexer/lexer.py); "" is the empty list of Tokenizer.__init__
MODE_TOKENS ==
  [ DEFAULT |-> <<"DoubleQuotedString", "MultilineStringStart", "Name",
                  "PositiveInteger", "EndOfLine", "WhiteSpace", "Character">>,
    MULTILINE_STRING |-> <<"MultilineStringEnd", "MultilineStringContent">>,
    MACRO_DEFINITION |-> <<"MacroDefinitionStart", "MacroDefinitionEnd",
                           "SharpComment", "MacroContent">>,
    PREPROCESSOR |-> <<"Include", "MacroDefinitionStart", "MacroArgument",
                       "MacroCallStart", "SharpComment", "NonMacroCall">>,
    MACRO_EXPANSION |-> <<"DoubleQuotedString", "MultilineStringStart",
                          "WhiteSpace", "EndOfLine", "SharpComment",
                          "MacroCallEnd">>,
    NOTHING |-> <<>> ]

\* a token: its kind and its matched_string; NoToken is the None that
\* Tokenizer.__next__ returns when no pattern matches
LTok(kind, text) == [kind |-> kind, text |-> text]

NoToken == LTok("NoToken", "")

\* the token of the kind, of those whose indices are in K, that matches most
FirstOfLongest(kinds, K, s, i) ==
  IF K = {} THEN NoToken
  ELSE LET k == CHOOSE a \in K :
                  \A b \in K : MatchLen(kinds[b], s, i) <= MatchLen(kinds[a], s, i)
       IN  LTok(kinds[k], Slice(s, i, i + MatchLen(kinds[k], s, i)))

\* the token of the first of the kinds whose indices are in K, if any
FirstOf(kinds, K, s, i) ==
  IF K = {} THEN NoToken
  ELSE LTok(kinds[Least(K)],
            Slice(s, i, i + MatchLen(kinds[Least(K)], s, i)))

\* Tokenizer.__next__: the first kind of the list whose pattern matches at i
Scan(s, i, tmode) ==
  FirstOf(MODE_TOKENS[tmode],
          { k \in 1..Len(MODE_TOKENS[tmode]) :
              MatchLen(MODE_TOKENS[tmode][k], s, i) >= 0 },
          s, i)

(***************************************************************************)
(* Token values (the process functions of src/tm/lexer/tokens.py).         *)
(***************************************************************************)
\* file.readline(): the first line of a text, its newline included
ReadLine(text) ==
  LET r == Run(text, 0, {"\n"}, FALSE)
  IN  Slice(text, 0, IF r < Len(text) THEN r + 1 ELSE r)

RECURSIVE SplitLines(_)
\* the lines of a text, each with its newline
SplitLines(text) ==
  IF text = "" THEN <<>>
  ELSE <<ReadLine(text)>> \o SplitLines(From(text, Len(ReadLine(text))))

RECURSIVE JoinLines(_)
\* ''.join(lines)
JoinLines(lines) == IF lines = <<>> THEN "" ELSE Head(lines) \o JoinLines(Tail(lines))

\* textwrap.dedent on a text indented with spaces: lines of spaces only lose
\* their spaces, and the other lines lose their smallest common indentation
Dedent(text) ==
  LET lines == SplitLines(text)
      Body(l) == IF Ch(l, Len(l) - 1) = "\n" THEN Slice(l, 0, Len(l) - 1) ELSE l
      Indent(l) == Run(l, 0, {" "}, TRUE)
      Blank(l) == Indent(l) = Len(Body(l))
      I == { Indent(lines[k]) : k \in { j \in 1..Len(lines) : ~Blank(lines[j]) } }
      margin == IF I = {} THEN 0 ELSE Least(I)
      Strip(l) == IF Blank(l) THEN From(l, Indent(l)) ELSE From(l, margin)
  IN  JoinLines([k \in 1..Len(lines) |-> Strip(lines[k])])

\* MultilineString.process: dedent(text.lstrip('\n'))
MultilineStringValue(text) == Dedent(From(text, Run(text, 0, {"\n"}, TRUE)))

\* DoubleQuotedString.process: json.loads of a literal without escapes
DoubleQuotedStringValue(text) == Slice(text, 1, Len(text) - 1)

\* int() of a run of digits
RECURSIVE ParseInt(_)
ParseInt(text) ==
  IF text = "" THEN 0
  ELSE 10 * ParseInt(Slice(text, 0, Len(text) - 1))
       + (CHOOSE d \in 0..9 : Ch("0123456789", d) = Ch(text, Len(text) - 1))

\* MacroArgument.process: int(value[2:-1]) - 1
MacroArgumentValue(text) == ParseInt(Slice(text, 2, Len(text) - 1)) - 1

\* value.strip()
StripSpace(text) ==
  LET a == Run(text, 0, Space, TRUE)
      K == { k \in a..Len(text) : Run(text, k, Space, TRUE) = Len(text) - k }
  IN  IF a = Len(text) THEN "" ELSE Slice(text, a, Least(K))

\* MacroCallStart.process: the name and the optional flag of a call
MacroCallStartValue(text) ==
  LET name == StripSpace(From(text, 2))
  IN  IF Ch(name, 0) = "?" THEN <<From(name, 1), TRUE>> ELSE <<name, FALSE>>

\* Include.process: DoubleQuotedString.process(value.strip()[7:])
IncludeValue(text) ==
  LET v == From(StripSpace(text), 7)
  IN  DoubleQuotedStringValue(From(v, Run(v, 0, Space, TRUE)))

\* the kinds whose value is None
NoneValued ==
  { "SharpComment", "MultilineStringStart", "MultilineStringEnd",
    "MacroDefinitionEnd", "MacroCallEnd" }

\* the kinds whose value is a text
TextValued ==
  { "DoubleQuotedString", "MultilineString", "MultilineStringContent", "Name",
    "EndOfLine", "WhiteSpace", "Character", "MacroDefinitionStart",
    "MacroContent", "NonMacroCall", "Include" }

\* token.value of a token whose value is a text
Value(tok) ==
  CASE tok.kind = "DoubleQuotedString" -> DoubleQuotedStringValue(tok.text)
    [] tok.kind = "MultilineString" -> MultilineStringValue(tok.text)
    [] tok.kind = "MacroDefinitionStart" -> MacroDefinitionName(tok.text)
    [] tok.kind = "Include" -> IncludeValue(tok.text)
    [] OTHER -> tok.text

(***************************************************************************)
(* Sources.  A source is a text, or the path of a file of Files.           *)
(***************************************************************************)
\* the files that exist, by path
Files ==
  ("d/a" :> "macro m [ A ]\n${m}\n") @@
  ("d/b" :> "include \"a\"\n${?m} b\n") @@
  ("d/c" :> "x -8<-\ninclude \"e\"\n->8- y\n") @@
  ("d/e" :> "e ->8-\n") @@
  ("d/f" :> "include \"f\"\n") @@
  ("d/g" :> "-8<- g\n") @@
  ("d/h" :> "${m\n") @@
  ("d/i" :> "macro k [ B\n")

\* Path.parent
Parent(path) ==
  LET K == { k \in 0..Len(path) - 1 : Ch(path, k) = "/" }
  IN  IF K = {} THEN "." ELSE Slice(path, 0, CHOOSE k \in K : \A j \in K : j <= k)

\* parent / Path(string), for a relative string
PathJoin(parent, string) == IF parent = "." THEN string ELSE parent \o "/" \o string

\* a source that is a text, and one that is the path of a file
FromText(text) == [text |-> text, path |-> ""]

FromFile(path) == [text |-> "", path |-> path]

\* the inputs of src/tm/lexer/test_lexer.py that hold no backslash, and texts
\* for the cases its tests leave out
TestTexts ==
  {
    \* CASE_BASIC
    "foo {\n  bar\n}\n",
    \* CASE_WHITESPACE
    "   foo   bar   \n",
    \* CASE_COMMENT
    "foo {\n  # comment\n  bar # another comment\n}\n",
    \* CASE_INTEGER
    "foo 1 bar 123 bin88\n",
    \* CASE_MULTILINE_STRING_1
    "foo -8<-\n  a\n    b\n->8-\nbar\n",
    \* CASE_MULTILINE_STRING_2
    "foo -8<- a\n  b # x\n   c ->8-\nbar\n",
    \* CASE_MACRO_BASIC
    "macro foo [ bar ]\n${foo} bin ${foo}\n",
    \* CASE_MACRO_OPTION
    "a ${?foo} b\n",
    \* CASE_MACRO_ARG_1
    "macro foo [ bar ${1} ]\na ${foo \"b\"} c\n",
    \* CASE_MACRO_ARG_2
    "macro foo [b${1}r]\na ${foo \"a\"} c\n",
    \* CASE_MACRO_ARG_4
    "macro foo [x ${1} y]\na ${foo -8<-\n    b\n    \"c\"\n  ->8-\n  \"d\" # x\n}\ne\n",
    \* CASE_MACRO_MULTILINE_1
    "macro foo [\n  b ${2} d\n  e ${1} g\n]\na ${foo\n     \"f\"\n     \"c\"\n   } h\n",
    \* CASE_MACRO_MULTILINE_2
    "macro foo [a\n  b ${2}\n  d# x\n  e ]\nx ${foo\n    \"b\"\n    \"c\"\n} y\n",
    \* CASE_MACRO_CONCAT_1
    "macro foo [a]\nb${foo}r x \"f${foo}a\"\n",
    \* CASE_MACRO_CONCAT_2
    "macro foo [a\nb\no]\nb${foo}r x f${foo}r\n",
    \* CASE_MACRO_IN_MULTILINE_STRING
    "macro foo [b ${1} d]\nbar -8<-\na ${foo \"c\"}\ne\n->8-\n",
    \* CASE_NESTED_MACRO_DEFINITION_1
    "macro foo [\n  a\n  macro bar [b\n  e]\n  f\n  ${bar}\n]\n${foo}\n",
    \* test_undefined_macro
    "foo ${bar}",
    \* test_undefined_macro_argument
    "macro bar [ ${2} ]\n${bar \"foo\"}",
    \* test_unexpected_end_of_input_macro_definition
    "macro bar [ foo\nbar",
    \* test_unexpected_end_of_input_macro_expansion
    "macro bar [ foo ]\n${bar",
    \* test_unexpected_end_of_input_multiline_string
    "foo -8<- foo\nbar",
    \* a call left open in a macro body, with more lines in the source
    "macro m [ ${n ]\n${m}\n}\n",
    \* a call left open in an included file
    "include \"d/h\"\n}\n",
    \* a definition left open in an included file
    "include \"d/i\"\n]\n${k}\n",
    \* a string left open in an argument list
    "${m -8<- a",
    \* a string left open in an included file
    "include \"d/g\"\n->8-\n",
    \* a string that includes a file
    "include \"d/c\"\n",
    \* an include of no file
    "include \"d/z\"\n",
    \* an argument reference outside a macro body
    "a ${1} b\n",
    \* a bare word in an argument list
    "macro m [ A ]\n${m x}\n",
    \* text after the end of a definition
    "macro m [ A ] b\n",
    \* a call of two arguments, one referenced
    "macro m [ ${2} ]\n${m \"x\" \"y\"} ${?n}\n",
    \* a macro that calls itself
    "macro m [ ${m} ]\n${m}\n",
    \* a call with a string argument, in a string
    "macro m [ ${1} ]\nx -8<-\n${m -8<- a ->8-}\n->8- y\n",
    \* a comment that ends a text
    "a # c",
    \* a macro body that calls a macro and then refers to an argument
    "macro n [x${1}]\nmacro m [${n \"q\"} ${1}]\n${m \"a\"}\n",
    \* a call that goes on to the next lines, after a call on its first line
    "macro k [B${1}]\n${k \"p\"} ${k\n \"x\"\n}\n",
    \* a macro defined three times in one scope, and called
    "macro m [ A ]\nmacro m [ B ]\n${m}\nmacro m [ B ]\n${m}\n"
  }

\* the lines that the enumerated texts are made of
Lines ==
  { "macro m [ ${1} ]\n", "macro m [ A\n", "]\n", "${m \"x\"}\n", "${?m} b\n",
    "${m\n", "a -8<- s\n", "->8- c\n", "b # c\n", "include \"d/a\"\n" }

RECURSIVE Texts(_)
\* the texts of at most n lines
Texts(n) ==
  IF n = 0 THEN {""}
  ELSE Texts(n - 1) \cup { l \o t : l \in Lines, t \in Texts(n - 1) }

\* the sources the lexer is constructed on
Sources ==
  { FromText(t) : t \in TestTexts \cup Texts(MaxLines) }
    \cup { FromFile(p) : p \in DOMAIN Files }

(***************************************************************************)
(* The lexer (src/lexer/lexer.py).  A lexer value l has the fields of the  *)
(* object: stack, mode and in_multiline_string; frames, the activations of *)
(* handle_multiline_string and handle_macro_definition that wait for a     *)
(* token of next(self), innermost last, with their local variables; and    *)
(* what the last pass through __next__ did: op the branch it took, scanned *)
(* the token it scanned, res how it ended (more: `return next(self)`,      *)
(* token or none: a value returned to the consumer, raise: an exception,   *)
(* which leaves the object as it was at the raise), tok and err.           *)
(* Locations are not modelled.                                             *)
(***************************************************************************)
\* MacroCall; NoCall is the None of Context.c_call and Context.n_call
MacroCall(name, is_optional) ==
  [some |-> TRUE, name |-> name, is_optional |-> is_optional, args |-> <<>>]

NoCall == [some |-> FALSE, name |-> "", is_optional |-> FALSE, args |-> <<>>]

\* Context: rest is what line_stream has yet to yield, path its path ("" for
\* a text); string, position and tmode are the tokenizer's string, position
\* and possible tokens
Context(text, path, macro_call) ==
  [ rest |-> text, path |-> path, macros |-> <<>>, acc |-> "",
    c_call |-> macro_call, n_call |-> NoCall,
    string |-> "", position |-> 0, tmode |-> "NOTHING" ]

\* Context.is_file
IsFile(x) == x.path # ""

\* the None a call of next(self) may return
NoneTok == LTok("None", "")

\* Lexer.x
X(l) == l.stack[Len(l.stack)]

SetX(l, x) == [l EXCEPT !.stack[Len(l.stack)] = x]

\* Lexer.push
Push(l, text, path, macro_call) ==
  LET st == IF l.stack = <<>> THEN l.stack
            ELSE [l.stack EXCEPT ![Len(l.stack)] =
                    [@ EXCEPT !.acc = "", !.string = "", !.position = 0]]
  IN  [l EXCEPT !.stack = Append(st, Context(text, path, macro_call))]

\* Lexer.pop
Pop(l) == [l EXCEPT !.stack = SubSeq(l.stack, 1, Len(l.stack) - 1)]

\* Lexer.set_mode
SetMode(l, m) == [l EXCEPT !.mode = m, !.stack[Len(l.stack)].tmode = m]

\* the Contexts of the stack that are files
FileContexts(st) == { k \in 1..Len(st) : IsFile(st[k]) }

\* the greatest element of a non-empty set of numbers
Greatest(S) == CHOOSE k \in S : \A j \in S : j <= k

\* add_macro storing on the first Context of the stack
AddMacroOnFirst(l, name, value) ==
  [l EXCEPT !.stack[1].macros = (name :> value) @@ @]

\* add_macro keeping the body a name already has
AddMacroKeepsFirst(l, name, value) ==
  LET F == FileContexts(l.stack)
      k == IF F = {} THEN Len(l.stack) ELSE Greatest(F)
  IN  [l EXCEPT !.stack[k].macros = @ @@ (name :> value)]

\* Lexer.add_macro
AddMacro(l, name, value) ==
  LET F == FileContexts(l.stack)
      k == IF F = {} THEN Len(l.stack) ELSE Greatest(F)
  IN  [l EXCEPT !.stack[k].macros = (name :> value) @@ @]

\* the Contexts whose macro table has the name
Holders(st, name) == { k \in 1..Len(st) : name \in DOMAIN st[k].macros }

\* an exception leaves next(self)
Raise(l, e) == [l EXCEPT !.res = "raise", !.err = e]

\* a pass ends with `return next(self)`
More(l) == [l EXCEPT !.res = "more"]

\* resolve_macro without its test of is_optional
ResolveMacroStrict(st, mc) ==
  IF Holders(st, mc.name) # {}
  THEN [ok |-> TRUE, text |-> st[Greatest(Holders(st, mc.name))].macros[mc.name]]
  ELSE [ok |-> FALSE, text |-> ""]

\* resolve_macro walking the stack from the outermost Context
ResolveMacroOutermost(st, mc) ==
  IF Holders(st, mc.name) # {}
  THEN [ok |-> TRUE, text |-> st[Least(Holders(st, mc.name))].macros[mc.name]]
  ELSE IF ~mc.is_optional THEN [ok |-> FALSE, text |-> ""]
  ELSE [ok |-> TRUE, text |-> ""]

\* Lexer.resolve_macro: the text to substitute, or the exception raised
ResolveMacro(st, mc) ==
  IF Holders(st, mc.name) # {}
  THEN [ok |-> TRUE, text |-> st[Greatest(Holders(st, mc.name))].macros[mc.name]]
  ELSE IF ~mc.is_optional THEN [ok |-> FALSE, text |-> ""]
  ELSE [ok |-> TRUE, text |-> ""]

\* Lexer.resolve_path
ResolvePath(st, string) ==
  IF FileContexts(st) # {}
  THEN PathJoin(Parent(st[Greatest(FileContexts(st))].path), string)
  ELSE string

\* Lexer.__init__
NewLexer(text, path) ==
  SetMode([ stack |-> <<Context(text, path, NoCall)>>, mode |-> "NOTHING",
            in_multiline_string |-> 0, frames |-> <<>>, op |-> "init",
            scanned |-> NoToken, res |-> "more", tok |-> NoneTok, err |-> "" ],
          "PREPROCESSOR")

\* not self.x.tokenizer
Exhausted(x) == Len(x.string) <= x.position

\* Tokenizer.remaining_string
Remaining(x) == From(x.string, x.position)

\* tokenizer.set_string(line) with the next line of the line stream
SetString(x, line) ==
  [x EXCEPT !.string = line, !.position = 0, !.rest = From(x.rest, Len(line))]

\* __next__ up to the scan, when the tokenizer or the line stream has text:
\* an exhausted tokenizer is given the next line
WithLine(l) ==
  IF Exhausted(X(l)) THEN SetX(l, SetString(X(l), ReadLine(X(l).rest))) ELSE l

\* next(tokenizer) on the tokenizer of a Context
ScanIn(x) == Scan(x.string, x.position, x.tmode)

\* the token that next(self.x.tokenizer) returns in this pass
Scanned(l) == ScanIn(X(WithLine(l)))

\* the tokenizer has returned token t
Advance(l, t) ==
  [SetX(l, [X(l) EXCEPT !.position = @ + Len(t.text)]) EXCEPT !.scanned = t]

\* the lexer after the scan
AfterScan(l) == Advance(WithLine(l), Scanned(l))

\* an activation of handle_multiline_string or handle_macro_definition
Frame(kind, previous_mode, name) ==
  [ kind |-> kind, previous_mode |-> previous_mode, text |-> "",
    macro_name |-> name, nesting |-> 0 ]

\* handle_multiline_string up to its first next(self)
HandleMultilineString(l, previous_mode) ==
  [ [SetMode(l, "MULTILINE_STRING") EXCEPT !.in_multiline_string = 1]
    EXCEPT !.frames = Append(@, Frame("string", previous_mode, "")) ]

\* handle_macro_definition up to its first next(self)
HandleMacroDefinition(l, token) ==
  [ SetMode(l, "MACRO_DEFINITION")
    EXCEPT !.frames = Append(@, Frame("definition", "PREPROCESSOR", Value(token))) ]

\* self.x.n_call.args.append(token.value)
AppendArgument(l, token) ==
  IF ~X(l).n_call.some THEN Raise(l, "AttributeError")
  ELSE More(SetX(l, [X(l) EXCEPT !.n_call.args = Append(@, Value(token))]))

RECURSIVE ReturnAnyDepth(_, _)
\* next(self) returns, with a capture that ends at any MultilineStringEnd
ReturnAnyDepth(l, token) ==
  IF l.frames = <<>>
  THEN [l EXCEPT !.res = IF token = NoneTok THEN "none" ELSE "token", !.tok = token]
  ELSE
    LET f == l.frames[Len(l.frames)]
        n == Len(l.frames)
    IN  IF token = NoneTok THEN Raise(l, "TypeError")
        ELSE IF f.kind = "string" THEN
          IF token.kind = "MultilineStringEnd"
          THEN LET l1 == [SetMode(l, f.previous_mode)
                          EXCEPT !.in_multiline_string = 0,
                                 !.frames = SubSeq(@, 1, n - 1)]
                   s == LTok("MultilineString", f.text)
               IN  IF f.previous_mode = "MACRO_EXPANSION"
                   THEN AppendArgument(l1, s)
                   ELSE ReturnAnyDepth(l1, s)
          ELSE More([l EXCEPT !.frames[n].text = @ \o token.text])
        ELSE
          IF token.kind = "MacroDefinitionEnd" /\ f.nesting = 0
          THEN More(SetMode(AddMacro([l EXCEPT !.frames = SubSeq(@, 1, n - 1)],
                                   f.macro_name, f.text),
                          "PREPROCESSOR"))
          ELSE IF token.kind = "MacroDefinitionStart"
          THEN More([l EXCEPT !.frames[n].nesting = @ + 1,
                              !.frames[n].text = @ \o token.text])
          ELSE IF token.kind = "MacroDefinitionEnd"
          THEN More([l EXCEPT !.frames[n].nesting = @ - 1,
                              !.frames[n].text = @ \o token.text])
          ELSE IF token.kind \in TextValued
          THEN More([l EXCEPT !.frames[n].text = @ \o Value(token)])
          ELSE IF token.kind \in NoneValued THEN More(l)
          ELSE Raise(l, "TypeError")

RECURSIVE ReturnUnbalanced(_, _)
\* next(self) returns, with a macro body that ends at any MacroDefinitionEnd
ReturnUnbalanced(l, token) ==
  IF l.frames = <<>>
  THEN [l EXCEPT !.res = IF token = NoneTok THEN "none" ELSE "token", !.tok = token]
  ELSE
    LET f == l.frames[Len(l.frames)]
        n == Len(l.frames)
    IN  IF token = NoneTok THEN Raise(l, "TypeError")
        ELSE IF f.kind = "string" THEN
          IF token.kind = "MultilineStringEnd" /\ l.in_multiline_string = 1
          THEN LET l1 == [SetMode(l, f.previous_mode)
                          EXCEPT !.in_multiline_string = 0,
                                 !.frames = SubSeq(@, 1, n - 1)]
                   s == LTok("MultilineString", f.text)
               IN  IF f.previous_mode = "MACRO_EXPANSION"
                   THEN AppendArgument(l1, s)
                   ELSE ReturnUnbalanced(l1, s)
          ELSE More([l EXCEPT !.frames[n].text = @ \o token.text])
        ELSE
          IF token.kind = "MacroDefinitionEnd"
          THEN More(SetMode(AddMacro([l EXCEPT !.frames = SubSeq(@, 1, n - 1)],
                                   f.macro_name, f.text),
                          "PREPROCESSOR"))
          ELSE IF token.kind = "MacroDefinitionStart"
          THEN More([l EXCEPT !.frames[n].nesting = @ + 1,
                              !.frames[n].text = @ \o token.text])
          ELSE IF token.kind = "MacroDefinitionEnd"
          THEN More([l EXCEPT !.frames[n].nesting = @ - 1,
                              !.frames[n].text = @ \o token.text])
          ELSE IF token.kind \in TextValued
          THEN More([l EXCEPT !.frames[n].text = @ \o Value(token)])
          ELSE IF token.kind \in NoneValued THEN More(l)
          ELSE Raise(l, "TypeError")

RECURSIVE Return(_, _)
\* next(self) returns token (or None) to its caller: the consumer when no
\* activation waits, else the innermost activation, which runs on to its next
\* call of next(self) or to its end; at its end the pass that called it goes on
Return(l, token) ==
  IF l.frames = <<>>
  THEN [l EXCEPT !.res = IF token = NoneTok THEN "none" ELSE "token", !.tok = token]
  ELSE
    LET f == l.frames[Len(l.frames)]
        n == Len(l.frames)
    IN  IF token = NoneTok THEN Raise(l, "TypeError")
        ELSE IF f.kind = "string" THEN
          IF token.kind = "MultilineStringEnd" /\ l.in_multiline_string = 1
          THEN LET l1 == [SetMode(l, f.previous_mode)
                          EXCEPT !.in_multiline_string = 0,
                                 !.frames = SubSeq(@, 1, n - 1)]
                   s == LTok("MultilineString", f.text)
               IN  IF f.previous_mode = "MACRO_EXPANSION"
                   THEN AppendArgument(l1, s)
                   ELSE Return(l1, s)
          ELSE More([l EXCEPT !.frames[n].text = @ \o token.text])
        ELSE
          IF token.kind = "MacroDefinitionEnd" /\ f.nesting = 0
          THEN More(SetMode(AddMacro([l EXCEPT !.frames = SubSeq(@, 1, n - 1)],
                                   f.macro_name, f.text),
                          "PREPROCESSOR"))
          ELSE IF token.kind = "MacroDefinitionStart"
          THEN More([l EXCEPT !.frames[n].nesting = @ + 1,
                              !.frames[n].text = @ \o token.text])
          ELSE IF token.kind = "MacroDefinitionEnd"
          THEN More([l EXCEPT !.frames[n].nesting = @ - 1,
                              !.frames[n].text = @ \o token.text])
          ELSE IF token.kind \in TextValued
          THEN More([l EXCEPT !.frames[n].text = @ \o Value(token)])
          ELSE IF token.kind \in NoneValued THEN More(l)
          ELSE Raise(l, "TypeError")

\* the dispatch with a PREPROCESSOR comment handed on instead of discarded
DispatchBranchReturnsComment(m, k) ==
  IF k = "NoToken" THEN "ScanFails"
  ELSE IF m = "PREPROCESSOR" THEN
    CASE k = "MacroDefinitionStart" -> "DefinitionStart"
      [] k = "MacroArgument" -> "Argument"
      [] k = "MacroCallStart" -> "CallStart"
      [] k = "Include" -> "Include"
      [] k = "SharpComment" -> "ReturnToken"
      [] OTHER -> "Text"
  ELSE IF m = "MACRO_EXPANSION" THEN
    CASE k = "MultilineStringStart" -> "ArgumentStringStart"
      [] k = "DoubleQuotedString" -> "ArgumentString"
      [] k = "MacroCallEnd" -> "CallEnd"
      [] OTHER -> "ArgumentSkip"
  ELSE IF m = "DEFAULT" /\ k = "MultilineStringStart" THEN "StringStart"
  ELSE "ReturnToken"

\* the branch of the dispatch on the mode and the kind of the scanned token
DispatchBranch(m, k) ==
  IF k = "NoToken" THEN "ScanFails"
  ELSE IF m = "PREPROCESSOR" THEN
    CASE k = "MacroDefinitionStart" -> "DefinitionStart"
      [] k = "MacroArgument" -> "Argument"
      [] k = "MacroCallStart" -> "CallStart"
      [] k = "Include" -> "Include"
      [] k = "SharpComment" -> "Comment"
      [] OTHER -> "Text"
  ELSE IF m = "MACRO_EXPANSION" THEN
    CASE k = "MultilineStringStart" -> "ArgumentStringStart"
      [] k = "DoubleQuotedString" -> "ArgumentString"
      [] k = "MacroCallEnd" -> "CallEnd"
      [] OTHER -> "ArgumentSkip"
  ELSE IF m = "DEFAULT" /\ k = "MultilineStringStart" THEN "StringStart"
  ELSE "ReturnToken"

\* __next__ with the test of the stack before the test of MACRO_EXPANSION
BranchPopsFirst(l) ==
  IF Exhausted(X(l)) /\ X(l).rest = ""
  THEN IF Len(l.stack) > 1 THEN "PopContext"
       ELSE IF l.mode = "MACRO_EXPANSION" THEN "ExpansionExhausted"
       ELSE IF l.mode = "MULTILINE_STRING" THEN "StringExhausted"
       ELSE "EndOfInput"
  ELSE DispatchBranch(l.mode, Scanned(l).kind)

\* __next__ without its test of the stack: the end of any Context ends the input
BranchEndsEarly(l) ==
  IF Exhausted(X(l)) /\ X(l).rest = ""
  THEN IF l.mode = "MACRO_EXPANSION" THEN "ExpansionExhausted"
       ELSE IF l.mode = "MULTILINE_STRING" THEN "StringExhausted"
       ELSE "EndOfInput"
  ELSE DispatchBranch(l.mode, Scanned(l).kind)

\* __next__ with the test of MULTILINE_STRING before the test of the stack
BranchStringFirst(l) ==
  IF Exhausted(X(l)) /\ X(l).rest = ""
  THEN IF l.mode = "MACRO_EXPANSION" THEN "ExpansionExhausted"
       ELSE IF l.mode = "MULTILINE_STRING" THEN "StringExhausted"
       ELSE IF Len(l.stack) > 1 THEN "PopContext"
       ELSE "EndOfInput"
  ELSE DispatchBranch(l.mode, Scanned(l).kind)

\* the branch of __next__ that a pass takes
Branch(l) ==
  IF Exhausted(X(l)) /\ X(l).rest = ""
  THEN IF l.mode = "MACRO_EXPANSION" THEN "ExpansionExhausted"
       ELSE IF Len(l.stack) > 1 THEN "PopContext"
       ELSE IF l.mode = "MULTILINE_STRING" THEN "StringExhausted"
       ELSE "EndOfInput"
  ELSE DispatchBranch(l.mode, Scanned(l).kind)

(***************************************************************************)
(* The parser's state: one RewindableStream over one producer, and ret,    *)
(* what the last call returned.                                            *)
(***************************************************************************)
VARIABLES given, peeked, stream, ret

pvars == <<given, peeked, stream, ret>>

(***************************************************************************)
(* The lexer's state: the source it was constructed on, the fields of the  *)
(* object, the waiting activations, and out, what its last pass did.       *)
(***************************************************************************)
VARIABLES source, stack, mode, in_multiline_string, frames, out

vars == <<given, peeked, stream, ret, source, stack, mode, in_multiline_string,
          frames, out>>

\* the stream object, as the value the operators above work on
Cur == [given |-> given, peeked |-> peeked, stream |-> stream,
        fault |-> FALSE, rew |-> 0, pulls |-> 0, tried |-> <<>>,
        loops |-> FALSE]

Ret(op, rule, ok, value, count, tok, s) ==
  [op |-> op, rule |-> rule, ok |-> ok, value |-> value, count |-> count,
   tok |-> tok, fault |-> s.fault, rew |-> s.rew, pulls |-> s.pulls,
   tried |-> s.tried]

Store(s) ==
  /\ given' = s.given
  /\ peeked' = s.peeked
  /\ stream' = s.stream
  /\ UNCHANGED <<source, stack, mode, in_multiline_string, frames, out>>

\* the lexer object, as the value the operators above work on
LCur ==
  [ stack |-> stack, mode |-> mode, in_multiline_string |-> in_multiline_string,
    frames |-> frames, op |-> out.op, scanned |-> out.scanned, res |-> out.res,
    tok |-> out.tok, err |-> out.err ]

Out(l) ==
  [op |-> l.op, scanned |-> l.scanned, res |-> l.res, tok |-> l.tok, err |-> l.err]

LStore(l) ==
  /\ stack' = l.stack
  /\ mode' = l.mode
  /\ in_multiline_string' = l.in_multiline_string
  /\ frames' = l.frames
  /\ out' = Out(l)
  /\ UNCHANGED source
  /\ UNCHANGED pvars

\* Lexer(src) has been constructed and next() not yet called
Constructed(src) ==
  LET l == NewLexer(IF src.path = "" THEN src.text ELSE Files[src.path], src.path)
  IN  /\ source = src
      /\ stack = l.stack
      /\ mode = l.mode
      /\ in_multiline_string = l.in_multiline_string
      /\ frames = l.frames
      /\ out = Out(l)

PInit ==
  /\ given = <<>>
  /\ peeked = <<>>
  /\ stream \in Streams
  /\ ret = Ret("init", "", FALSE, None, 0, END, Cur)
  /\ Constructed(FromText(""))

\* next(token_s)
DoNext ==
  /\ ret.op # "loop"
  /\ Len(given) < MaxGiven
  /\ LET n == SNext(Cur)
     IN  Store(n.s) /\ ret' = Ret("next", "", TRUE, None, 0, n.tok, n.s)

\* token_s.peek()
DoPeek ==
  /\ ret.op # "loop"
  /\ LET p == SPeek(Cur)
     IN  Store(p.s) /\ ret' = Ret("peek", "", TRUE, None, 0, p.tok, p.s)

\* token_s.rewind(n), called as its assertion requires
DoRewind ==
  /\ ret.op # "loop"
  /\ \E n \in 0..Len(given) :
       LET s == SRewind(Cur, n)
       IN  Store(s) /\ ret' = Ret("rewind", "", TRUE, None, n, END, s)

\* token_s.flush()
DoFlush ==
  /\ ret.op # "loop"
  /\ given # <<>>
  /\ LET s == SFlush(Cur)
     IN  Store(s) /\ ret' = Ret("flush", "", TRUE, None, 0, END, s)

\* rule.match(None, token_s) for a rule of the table, while the history is short;
\* a call that has entered a loop that does not end never returns: op is "loop"
\* and the caller makes no further call
DoMatch ==
  /\ ret.op # "loop"
  /\ Len(given) < MaxGiven
  /\ \E id \in RuleIds :
       LET m == MatchRule(id, Cur)
       IN  Store(m.s) /\ ret' = Ret(IF m.s.loops THEN "loop" ELSE "match", id,
                                    m.ok, m.value, m.count, END, m.s)

PNext == DoNext \/ DoPeek \/ DoRewind \/ DoFlush \/ DoMatch

Spec == PInit /\ [][PNext]_vars

(***************************************************************************)
(* The passes of Lexer.__next__, one per branch.  A pass that ends with    *)
(* `return next(self)` leaves res = "more" and the next pass goes on.      *)
(***************************************************************************)
\* the branch and the scanned token are those of this pass
Enter(l, op) == [l EXCEPT !.op = op, !.scanned = NoToken]

\* the pass up to the dispatch on the mode
Dispatch(l, op) == [AfterScan(l) EXCEPT !.op = op]

\* lines 172-173: the line stream ends in MACRO_EXPANSION
ExpansionExhausted(l) == Raise(l, "UnexpectedEndOfInput")

\* lines 175-184 with the counter taken down at the pop of any Context
PopContextAnyKind(l) ==
  More(SetMode(Pop(IF l.in_multiline_string # 0
                   THEN [l EXCEPT !.in_multiline_string = @ - 1]
                   ELSE l),
               IF l.mode = "MACRO_DEFINITION" THEN "MACRO_DEFINITION"
               ELSE "PREPROCESSOR"))

\* lines 175-184 without the set_mode that follows the pop
PopContextKeepsList(l) ==
  More(Pop(IF IsFile(X(l)) /\ l.in_multiline_string # 0
           THEN [l EXCEPT !.in_multiline_string = @ - 1]
           ELSE l))

\* lines 175-184: the line stream of a Context that is not the last one ends
PopContext(l) ==
  More(SetMode(Pop(IF IsFile(X(l)) /\ l.in_multiline_string # 0
                   THEN [l EXCEPT !.in_multiline_string = @ - 1]
                   ELSE l),
               IF l.mode = "MACRO_DEFINITION" THEN "MACRO_DEFINITION"
               ELSE "PREPROCESSOR"))

\* lines 186-187: the line stream of the last Context ends in MULTILINE_STRING
StringExhausted(l) == Raise(l, "UnexpectedEndOfInput")

\* line 189 for an input that ends only once: a call made after None was
\* returned raises
EndOfInputOnce(l) ==
  IF l.res = "none" THEN Raise(l, "StopIteration") ELSE Return(l, NoneTok)

\* line 189: return None
EndOfInput(l) == Return(l, NoneTok)

\* line 194: the tokenizer returns None, which cannot be unpacked
ScanFails(l) == Raise(l, "TypeError")

\* lines 199-200, l the lexer after the scan, here and below
DefinitionStart(l) == More(HandleMacroDefinition(l, l.scanned))

\* self.push(self.x.acc, call) after self.x.acc += text, then set_mode(m)
PushAcc(l, text, call, m) == SetMode(Push(l, X(l).acc \o text, "", call), m)

\* lines 202-209 with the argument count compared to N + 1
ArgumentOffByOne(l) ==
  IF ~X(l).c_call.some THEN Raise(l, "AttributeError")
  ELSE IF Len(X(l).c_call.args) <= MacroArgumentValue(l.scanned.text) + 1
  THEN Raise(l, "UndefinedMacroArgument")
  ELSE More(PushAcc(l, X(l).c_call.args[MacroArgumentValue(l.scanned.text) + 1]
                         \o Remaining(X(l)),
                    X(l).c_call, "PREPROCESSOR"))

\* lines 202-209
Argument(l) ==
  IF ~X(l).c_call.some THEN Raise(l, "AttributeError")
  ELSE IF Len(X(l).c_call.args) <= MacroArgumentValue(l.scanned.text)
  THEN Raise(l, "UndefinedMacroArgument")
  ELSE More(PushAcc(l, X(l).c_call.args[MacroArgumentValue(l.scanned.text) + 1]
                         \o Remaining(X(l)),
                    X(l).c_call, "PREPROCESSOR"))

\* lines 211-213
CallStart(l) ==
  More(SetMode(SetX(l, [X(l) EXCEPT
                          !.n_call = MacroCall(MacroCallStartValue(l.scanned.text)[1],
                                               MacroCallStartValue(l.scanned.text)[2])]),
               "MACRO_EXPANSION"))

\* lines 215-219 for the resolved path; open() fails on a path that is no file
IncludePath(l, path) ==
  IF path \notin DOMAIN Files THEN Raise(l, "FileNotFoundError")
  ELSE More([SetMode(Push(l, Files[path], path, NoCall), "PREPROCESSOR")
             EXCEPT !.in_multiline_string = IF @ # 0 THEN @ + 1 ELSE @])

\* lines 215-219
Include(l) == IncludePath(l, ResolvePath(l.stack, Value(l.scanned)))

\* lines 221-223
Comment(l) == More(l)

\* lines 225-233
Text(l) ==
  IF l.scanned.kind \notin TextValued THEN Raise(l, "TypeError")
  ELSE IF Exhausted(X(l))
  THEN More(PushAcc(l, Value(l.scanned), X(l).n_call,
                    IF l.in_multiline_string # 0 THEN "MULTILINE_STRING"
                    ELSE "DEFAULT"))
  ELSE More(SetX(l, [X(l) EXCEPT !.acc = @ \o Value(l.scanned)]))

\* lines 239-240, then 242-243 when the string ends
ArgumentStringStart(l) == More(HandleMultilineString(l, "MACRO_EXPANSION"))

\* lines 242-243
ArgumentString(l) == AppendArgument(l, l.scanned)

\* lines 245-250 with the buffer pushed for tokenization at once
SubstituteTokenized(l, r) ==
  IF ~r.ok THEN Raise(l, "UndefinedMacro")
  ELSE More(PushAcc(l, r.text \o Remaining(X(l)), X(l).n_call, "DEFAULT"))

\* lines 245-250 for the outcome r of resolve_macro
Substitute(l, r) ==
  IF ~r.ok THEN Raise(l, "UndefinedMacro")
  ELSE More(PushAcc(l, r.text \o Remaining(X(l)), X(l).n_call, "PREPROCESSOR"))

\* lines 245-250
CallEnd(l) ==
  IF ~X(l).n_call.some THEN Raise(l, "AttributeError")
  ELSE Substitute(l, ResolveMacro(l.stack, X(l).n_call))

\* line 252 alone: white space, an end of line or a comment in a call
ArgumentSkip(l) == More(l)

\* lines 256-257, then 259 when the string ends
StringStart(l) == More(HandleMultilineString(l, "DEFAULT"))

\* line 259: return (token, self._location)
ReturnToken(l) == Return(l, l.scanned)

\* next(lexer) may run: no exception has ended the lexer's use
Running == out.res # "raise"

\* next(self) takes branch b; a pass that pushes a Context does not run on a
\* full stack
Takes(b) ==
  /\ Running
  /\ Branch(LCur) = b
  /\ (\/ b \in {"Argument", "Include", "CallEnd"}
      \/ b = "Text" /\ Exhausted(X(AfterScan(LCur))))
       => Len(stack) < MaxDepth

DoExpansionExhausted ==
  /\ Takes("ExpansionExhausted")
  /\ LStore(ExpansionExhausted(Enter(LCur, "ExpansionExhausted")))

DoPopContext ==
  /\ Takes("PopContext")
  /\ LStore(PopContext(Enter(LCur, "PopContext")))

DoStringExhausted ==
  /\ Takes("StringExhausted")
  /\ LStore(StringExhausted(Enter(LCur, "StringExhausted")))

DoEndOfInput ==
  /\ Takes("EndOfInput")
  /\ LStore(EndOfInput(Enter(LCur, "EndOfInput")))

DoScanFails ==
  /\ Takes("ScanFails")
  /\ LStore(ScanFails(Enter(WithLine(LCur), "ScanFails")))

DoDefinitionStart ==
  /\ Takes("DefinitionStart")
  /\ LStore(DefinitionStart(Dispatch(LCur, "DefinitionStart")))

DoArgument ==
  /\ Takes("Argument")
  /\ LStore(Argument(Dispatch(LCur, "Argument")))

DoCallStart ==
  /\ Takes("CallStart")
  /\ LStore(CallStart(Dispatch(LCur, "CallStart")))

DoInclude ==
  /\ Takes("Include")
  /\ LStore(Include(Dispatch(LCur, "Include")))

DoComment ==
  /\ Takes("Comment")
  /\ LStore(Comment(Dispatch(LCur, "Comment")))

DoText ==
  /\ Takes("Text")
  /\ LStore(Text(Dispatch(LCur, "Text")))

DoArgumentStringStart ==
  /\ Takes("ArgumentStringStart")
  /\ LStore(ArgumentStringStart(Dispatch(LCur, "ArgumentStringStart")))

DoArgumentString ==
  /\ Takes("ArgumentString")
  /\ LStore(ArgumentString(Dispatch(LCur, "ArgumentString")))

DoCallEnd ==
  /\ Takes("CallEnd")
  /\ LStore(CallEnd(Dispatch(LCur, "CallEnd")))

DoArgumentSkip ==
  /\ Takes("ArgumentSkip")
  /\ LStore(ArgumentSkip(Dispatch(LCur, "ArgumentSkip")))

DoStringStart ==
  /\ Takes("StringStart")
  /\ LStore(StringStart(Dispatch(LCur, "StringStart")))

DoReturnToken ==
  /\ Takes("ReturnToken")
  /\ LStore(ReturnToken(Dispatch(LCur, "ReturnToken")))

LNext ==
  \/ DoExpansionExhausted \/ DoPopContext \/ DoStringExhausted \/ DoEndOfInput
  \/ DoScanFails \/ DoDefinitionStart \/ DoArgument \/ DoCallStart \/ DoInclude
  \/ DoComment \/ DoText \/ DoArgumentStringStart \/ DoArgumentString
  \/ DoCallEnd \/ DoArgumentSkip \/ DoStringStart \/ DoReturnToken

\* Lexer(source) for a source of the model; the parser is idle
LInit ==
  /\ given = <<>>
  /\ peeked = <<>>
  /\ stream = <<>>
  /\ ret = Ret("init", "", FALSE, None, 0, END, Cur)
  /\ \E src \in Sources : Constructed(src)

LexSpec == LInit /\ [][LNext]_vars

(***************************************************************************)
(* What a caller observes of a stream: the tokens its next k calls of      *)
(* next() return.  Ahead(s) calls reach the first sentinel after all that  *)
(* is buffered or yet to be produced.                                      *)
(***************************************************************************)
RECURSIVE NextSeq(_, _)
NextSeq(s, k) ==
  IF k = 0 THEN <<>>
  ELSE LET n == SNext(s) IN <<n.tok>> \o NextSeq(n.s, k - 1)

Ahead(s) == Len(s.peeked) + Len(s.stream) + 1

LastN(q, n) == SubSeq(q, Len(q) - n + 1, Len(q))

\* the step is a call of match on a rule of the set ids
MatchStep(ids) == ret'.op = "match" /\ ret'.rule \in ids

\* the step left the history and the tokens to come as they were
Untouched ==
  /\ given' = given
  /\ NextSeq(Cur', Ahead(Cur)) = NextSeq(Cur, Ahead(Cur))

(***************************************************************************)
(* C1  Sequence atomicity: when the match of an AndRule reports no match,  *)
(* every token it consumed (skipped ones included) has been rewound: the   *)
(* history is what it was before the attempt and next() returns the same   *)
(* tokens as if the attempt had never been made.                           *)
(***************************************************************************)
C1_SequenceAtomicity ==
  [][ (MatchStep(AndRules) /\ ~ret'.ok) => (Untouched /\ ret'.count = 0) ]_pvars

\* test_composed_rule: ThisFooBar fails on 'this { no }' after consuming
\* and skipping tokens, all of which were rewound
C1_Witness ==
  /\ ret.op = "match" /\ ret.rule = "ThisFooBar" /\ ~ret.ok
  /\ ret.rew >= 4
  /\ NextSeq(Cur, 5) = <<T.this, T.ws, T.ob, T.ws, T.no>>

(***************************************************************************)
(* C2  Rewind correctness: next() appends the token it returns to the      *)
(* history, and after rewind(n) with n <= Len(given) the next n calls of   *)
(* next() return the last n tokens of the history in their original order, *)
(* followed by the tokens that would have come next (a token buffered by   *)
(* peek() comes after the rewound ones).                                   *)
(***************************************************************************)
C2_RewindCorrectness ==
  [][ /\ ret'.op = "next" => given' = Append(given, ret'.tok)
      /\ ret'.op = "rewind" =>
           /\ given' = SubSeq(given, 1, Len(given) - ret'.count)
           /\ NextSeq(Cur', ret'.count + Ahead(Cur))
                = LastN(given, ret'.count) \o NextSeq(Cur, Ahead(Cur)) ]_pvars

\* two different tokens were rewound on top of a token that peek() had buffered
C2_Witness ==
  /\ ret.op = "rewind" /\ ret.count = 2
  /\ Len(peeked) >= 3
  /\ peeked[Len(peeked)] # peeked[Len(peeked) - 1]

(***************************************************************************)
(* C3  Choice determinism: the match of an OrRule returns the value and    *)
(* the count of the first alternative, in declaration order, that matches  *)
(* at the current position, and attempts no alternative after it; it       *)
(* reports no match exactly when no alternative matches.                   *)
(***************************************************************************)
Matching(id, s) ==
  { i \in 1..Len(Rules[id].rules) : MatchRule(Rules[id].rules[i].r, s).ok }

First(S) == CHOOSE i \in S : \A j \in S : i <= j

TriedOf(id, tried) == SelectSeq(tried, LAMBDA e : e[1] = id)

C3_ChoiceDeterminism ==
  [][ MatchStep(OrRules) =>
        LET id == ret'.rule
            S == Matching(id, Cur)
        IN  IF S = {}
            THEN /\ ~ret'.ok
                 /\ TriedOf(id, ret'.tried)
                      = [i \in 1..Len(Rules[id].rules) |-> <<id, i>>]
            ELSE LET m == MatchRule(Rules[id].rules[First(S)].r, Cur)
                 IN  /\ ret'.ok
                     /\ ret'.value = m.value
                     /\ ret'.count = m.count
                     /\ given' = m.s.given
                     /\ TriedOf(id, ret'.tried)
                          = [i \in 1..First(S) |-> <<id, i>>] ]_pvars

\* 'foo bar': FooOrFooBar returned r_foo, one token, although FooBar, the
\* later alternative, matches three tokens at the same position
C3_Witness ==
  /\ ret.op = "match" /\ ret.rule = "FooOrFooBar" /\ ret.ok
  /\ ret.value = "foo" /\ ret.count = 1
  /\ ret.tried = << <<"FooOrFooBar", 1>> >>
  /\ MatchRule("FooBar", SRewind(Cur, 1)).count = 3

(***************************************************************************)
(* C4  Leaf and Choice atomicity: a Leaf (E, V, N or C) or an OrRule that  *)
(* reports no match has consumed nothing, also when C matched a prefix of  *)
(* its characters first; a Leaf that matches has consumed exactly the      *)
(* matched tokens, 1 for E, V and N and Len(chars) for C.                  *)
(***************************************************************************)
LeafWidth(id) == IF Rules[id].k = "C" THEN Len(Rules[id].arg) ELSE 1

C4_LeafChoiceAtomicity ==
  [][ /\ (MatchStep(LeafRules \cup OrRules) /\ ~ret'.ok)
           => (Untouched /\ ret'.count = 0)
      /\ (MatchStep(LeafRules) /\ ret'.ok)
           => /\ ret'.count = LeafWidth(ret'.rule)
              /\ given' = given \o NextSeq(Cur, LeafWidth(ret'.rule))
              /\ NextSeq(Cur', Ahead(Cur))
                   = SubSeq(NextSeq(Cur, Ahead(Cur) + LeafWidth(ret'.rule)),
                            LeafWidth(ret'.rule) + 1,
                            Ahead(Cur) + LeafWidth(ret'.rule)) ]_pvars

\* test_bottom_rules_3 turned round: C('<=') read '<', then a token that is
\* not '=', and gave both back
C4_Witness ==
  /\ ret.op = "match" /\ ret.rule = "r_lte" /\ ~ret.ok
  /\ ret.rew = 2
  /\ NextSeq(Cur, 1) = <<T.lt>>

(***************************************************************************)
(* C5  peek() is idempotent and does not consume: it leaves the history    *)
(* alone, a second peek() and the next next() return the same token, and   *)
(* the producer is pulled at most once for that token.                     *)
(***************************************************************************)
C5_PeekIdempotent ==
  [][ ret'.op = "peek" =>
        /\ given' = given
        /\ ret'.pulls <= 1
        /\ SPeek(Cur').tok = ret'.tok
        /\ SPeek(Cur').s = Cur'
        /\ SPeek(SPeek(Cur').s).s = Cur'
        /\ SNext(Cur').tok = ret'.tok
        /\ SNext(Cur').s.pulls = 0
        /\ NextSeq(Cur', Ahead(Cur)) = NextSeq(Cur, Ahead(Cur)) ]_pvars

\* a peek() that pulled a token from the producer
C5_Witness ==
  /\ ret.op = "peek" /\ ret.pulls = 1 /\ ret.tok # END
  /\ peeked = <<ret.tok>>

(***************************************************************************)
(* What the claims about the lexer speak of: the current Context, the end  *)
(* of its text, the end of the whole input, and the capture in progress.   *)
(***************************************************************************)
TopX == stack[Len(stack)]

\* the tokenizer and the line stream of the current Context have nothing left
LineEnded == Exhausted(TopX) /\ TopX.rest = ""

\* nothing is left in the last Context of the stack
InputEnded == Len(stack) = 1 /\ LineEnded

\* the innermost waiting activation is a capture of this kind
Capturing(kind) == frames # <<>> /\ frames[Len(frames)].kind = kind

(***************************************************************************)
(* C6  Undefined macro: when a call closes whose name is in no macro table *)
(* of the stack, the pass raises UndefinedMacro if the call is not         *)
(* optional; if it is optional nothing is raised, the empty text is        *)
(* substituted and the lexer goes on with the rest of the line: the buffer *)
(* pushed is the accumulated text followed by what the line has after the  *)
(* closing brace, to be scanned in PREPROCESSOR mode.                      *)
(***************************************************************************)
C6_UndefinedMacro ==
  [][ (/\ out'.op = "CallEnd"
       /\ TopX.n_call.some
       /\ Holders(stack, TopX.n_call.name) = {})
      => IF TopX.n_call.is_optional
         THEN /\ out'.res = "more"
              /\ out'.err = ""
              /\ Len(stack') = Len(stack) + 1
              /\ stack'[Len(stack')].rest
                   = X(AfterScan(LCur)).acc \o Remaining(X(AfterScan(LCur)))
              /\ mode' = "PREPROCESSOR"
         ELSE /\ out'.res = "raise"
              /\ out'.err = "UndefinedMacro"
              /\ Len(stack') = Len(stack) ]_vars

\* an optional call of an undefined macro has closed in the middle of a line
C6_Witness ==
  /\ out.op = "CallEnd"
  /\ out.res = "more"
  /\ Len(stack) >= 2
  /\ stack[Len(stack) - 1].n_call.is_optional
  /\ Holders(stack, stack[Len(stack) - 1].n_call.name) = {}
  /\ TopX.rest = "a  b\n"

(***************************************************************************)
(* C7  Unterminated macro definition: when nothing is left of the input    *)
(* while handle_macro_definition still waits for the end of the body, the  *)
(* next pass raises UnexpectedEndOfInput.                                  *)
(***************************************************************************)
C7_DefinitionExhausted ==
  [][ (Running /\ Capturing("definition") /\ InputEnded)
      => (out'.res = "raise" /\ out'.err = "UnexpectedEndOfInput") ]_vars

(***************************************************************************)
(* C8  Unterminated multiline string: when nothing is left of the input    *)
(* while handle_multiline_string still waits for the closer, the next pass *)
(* raises UnexpectedEndOfInput.                                            *)
(***************************************************************************)
C8_StringExhausted ==
  [][ (Running /\ Capturing("string") /\ InputEnded)
      => (out'.res = "raise" /\ out'.err = "UnexpectedEndOfInput") ]_vars

(***************************************************************************)
(* C9  End of text in a macro call: when the current Context has nothing   *)
(* left while the mode is MACRO_EXPANSION, the next pass raises            *)
(* UnexpectedEndOfInput and leaves the stack as it is, however deep.       *)
(***************************************************************************)
C9_ExpansionExhausted ==
  [][ (Running /\ mode = "MACRO_EXPANSION" /\ LineEnded)
      => (/\ out'.res = "raise"
          /\ out'.err = "UnexpectedEndOfInput"
          /\ stack' = stack) ]_vars

\* the text of a buffer or of an included file has ended inside a call
C9_Witness ==
  /\ out.op = "ExpansionExhausted"
  /\ out.err = "UnexpectedEndOfInput"
  /\ mode = "MACRO_EXPANSION"
  /\ Len(stack) > 1

(***************************************************************************)
(* C10  Undefined macro argument: when ${N} is processed in a Context that *)
(* has a call being substituted, the pass raises UndefinedMacroArgument    *)
(* and pushes no Context if the call has fewer than N arguments, and       *)
(* raises nothing if it has at least N.                                    *)
(***************************************************************************)
C10_UndefinedMacroArgument ==
  [][ (out'.op = "Argument" /\ TopX.c_call.some)
      => LET N == ParseInt(Slice(out'.scanned.text, 2, Len(out'.scanned.text) - 1))
         IN  IF Len(TopX.c_call.args) < N
             THEN /\ out'.res = "raise"
                  /\ out'.err = "UndefinedMacroArgument"
                  /\ Len(stack') = Len(stack)
             ELSE out'.res = "more" /\ out'.err = "" ]_vars

\* ${N} was processed for a call that has arguments, but fewer than N
C10_Witness ==
  /\ out.op = "Argument"
  /\ out.err = "UndefinedMacroArgument"
  /\ TopX.c_call.some
  /\ Len(TopX.c_call.args) >= 1
  /\ Len(TopX.c_call.args) < ParseInt(Slice(out.scanned.text, 2, Len(out.scanned.text) - 1))

\* the innermost Context of the stack whose macro table has the name
Innermost(name) ==
  CHOOSE k \in Holders(stack, name) : \A j \in Holders(stack, name) : j <= k

(***************************************************************************)
(* C11  Macro lookup: when a call closes and some Context of the stack has *)
(* the name, the text substituted is the body held by the innermost such   *)
(* Context, so an inner definition shadows an outer one of the same name.  *)
(***************************************************************************)
C11_InnermostDefinition ==
  [][ (/\ out'.op = "CallEnd"
       /\ TopX.n_call.some
       /\ Holders(stack, TopX.n_call.name) # {})
      => /\ out'.res = "more"
         /\ Len(stack') = Len(stack) + 1
         /\ stack'[Len(stack')].rest
              = X(AfterScan(LCur)).acc
                  \o stack[Innermost(TopX.n_call.name)].macros[TopX.n_call.name]
                  \o Remaining(X(AfterScan(LCur))) ]_vars

\* a call has closed whose name two Contexts define with different bodies,
\* and the buffer pushed holds the body of the inner one
C11_Witness ==
  /\ out.op = "CallEnd"
  /\ out.res = "more"
  /\ Len(stack) >= 3
  /\ LET name == stack[Len(stack) - 1].n_call.name
         H == Holders(stack, name)
     IN  /\ \E j, k \in H : j < k /\ stack[j].macros[name] # stack[k].macros[name]
         /\ TopX.rest = stack[Greatest(H)].macros[name] \o "\n"

(***************************************************************************)
(* C12  Holders of macros: every Context of the stack whose macro table is *)
(* not empty is a file Context or the first Context of the stack.          *)
(***************************************************************************)
C12_MacrosOnFileOrFirst ==
  \A k \in 1..Len(stack) :
    DOMAIN stack[k].macros # {} => (IsFile(stack[k]) \/ k = 1)

\* this pass ends handle_macro_definition: the definition is registered
Defines == 
  /\ Capturing("definition")
  /\ Len(frames') < Len(frames)

(***************************************************************************)
(* C13  Include scoping.  A definition that ends while some Context is a   *)
(* file is stored in the table of the nearest file Context and in no       *)
(* other; a table stays as it is while its Context is on the stack, and    *)
(* goes with its Context when that is popped; and a call that closes       *)
(* raises UndefinedMacro exactly when no Context then on the stack has the *)
(* name and the call is not optional.  So a macro of an included file is   *)
(* resolved until the file's Context is popped and not after, unless       *)
(* another Context defines the name.                                       *)
(***************************************************************************)
C13_IncludeScoping ==
  [][ /\ (Defines /\ FileContexts(stack) # {})
         => \A k \in 1..Len(stack) :
              IF k = Greatest(FileContexts(stack))
              THEN /\ DOMAIN stack'[k].macros
                        = DOMAIN stack[k].macros
                            \cup {frames[Len(frames)].macro_name}
                   /\ \A n \in DOMAIN stack[k].macros \ {frames[Len(frames)].macro_name} :
                        stack'[k].macros[n] = stack[k].macros[n]
              ELSE stack'[k].macros = stack[k].macros
      /\ ~Defines
         => \A k \in 1..Len(stack) :
              k <= Len(stack') => stack'[k].macros = stack[k].macros
      /\ out'.op = "PopContext"
         => /\ Len(stack') = Len(stack) - 1
            /\ \A k \in 1..Len(stack') : stack'[k].path = stack[k].path
      /\ (out'.op = "CallEnd" /\ TopX.n_call.some)
         => ((out'.res = "raise" /\ out'.err = "UndefinedMacro")
               <=> (/\ Holders(stack, TopX.n_call.name) = {}
                    /\ ~TopX.n_call.is_optional)) ]_vars

\* after the include of a file that defines m and calls it, the including
\* text calls m, which no Context on the stack defines any more
C13_Witness ==
  /\ source = FromText("include \"d/a\"\n${?m} b\n")
  /\ out.op = "CallEnd"
  /\ out.res = "more"
  /\ Len(stack) = 2
  /\ stack[1].n_call.name = "m"
  /\ Holders(stack, "m") = {}
  /\ TopX.rest = " b\n"

(***************************************************************************)
(* What the claims about skipping speak of: the skip tokens ahead of a     *)
(* position, the mode a SkipBehavior gives a position, and the Sequences   *)
(* whose sub-rules are neither optional nor repeatable.                    *)
(***************************************************************************)
RECURSIVE SkipsAhead(_)
\* the number of skip tokens next() would return before any other token
SkipsAhead(s) ==
  IF SNext(s).tok.kind \in whitespace_tokens THEN 1 + SkipsAhead(SNext(s).s)
  ELSE 0

RECURSIVE After(_, _)
\* the stream after k calls of next()
After(s, k) == IF k = 0 THEN s ELSE After(SNext(s).s, k - 1)

\* the mode of a position: before the first sub-rule, or before a later one
ModeOf(skip, first) ==
  CASE skip = NORMAL -> IF first THEN "optional" ELSE "mandatory"
    [] skip = NO_SKIP -> "disallowed"
    [] skip = OPTIONAL -> "optional"

\* k skip tokens satisfy the mode
Accepts(m, k) ==
  CASE m = "mandatory" -> k >= 1
    [] m = "disallowed" -> k = 0
    [] m = "optional" -> TRUE

PlainRules ==
  { id \in AndRules :
      \A i \in 1..Len(Rules[id].rules) :
        ~Rules[id].rules[i].opt /\ ~Rules[id].rules[i].rep }

RECURSIVE Fits(_, _, _)
\* the sub-rules of a Sequence from the i-th on, each attempted behind the
\* skip tokens ahead of it if their number satisfies the mode of its position
Fits(id, i, s) ==
  IF i > Len(Rules[id].rules) THEN [ok |-> TRUE, count |-> 0]
  ELSE LET k == SkipsAhead(s)
           m == MatchRule(Rules[id].rules[i].r, After(s, k))
           r == Fits(id, i + 1, m.s)
       IN  IF Accepts(ModeOf(Rules[id].skip, i = 1), k) /\ m.ok /\ r.ok
           THEN [ok |-> TRUE, count |-> k + m.count + r.count]
           ELSE [ok |-> FALSE, count |-> 0]

(***************************************************************************)
(* C14  Skip behavior: a Sequence of sub-rules that are neither optional   *)
(* nor repeatable matches exactly when each sub-rule matches behind the k  *)
(* skip tokens ahead of it and k satisfies the mode of its position:       *)
(* mandatory k >= 1, disallowed k = 0, optional any k; NORMAL is optional  *)
(* before the first sub-rule and mandatory before a later one, NO_SKIP is  *)
(* disallowed and OPTIONAL optional at both.  It then consumes the skipped *)
(* and the matched tokens.                                                 *)
(***************************************************************************)
C14_SkipBehavior ==
  [][ MatchStep(PlainRules)
        => LET f == Fits(ret'.rule, 1, Cur)
           IN  ret'.ok = f.ok /\ ret'.count = f.count ]_pvars

\* test_and_rule_skip: 'this {' is no match with NO_SKIP, where the skip
\* token before the second sub-rule is disallowed
C14_Witness ==
  /\ ret.op = "match" /\ ret.rule = "ThisBraceNoSkip" /\ ~ret.ok
  /\ NextSeq(Cur, 3) = <<T.this, T.ws, T.ob>>
  /\ MatchRule("ThisBrace", Cur).ok

\* the Sequences that have no optional sub-rule
MandatoryRules ==
  { id \in AndRules : \A i \in 1..Len(Rules[id].rules) : ~Rules[id].rules[i].opt }

RECURSIVE Retries(_, _, _, _)
\* the retries of the i-th sub-rule, each behind the skip tokens ahead of it
\* if their number satisfies the mode of a first position (first = TRUE) or
\* of a later one: the stream they leave, the tokens they consumed and the
\* values they matched
Retries(id, i, s, first) ==
  LET k == SkipsAhead(s)
      m == MatchRule(Rules[id].rules[i].r, After(s, k))
      r == Retries(id, i, m.s, first)
  IN  IF Accepts(ModeOf(Rules[id].skip, first), k) /\ m.ok
      THEN [s |-> r.s, count |-> k + m.count + r.count,
            values |-> <<m.value>> \o r.values]
      ELSE [s |-> s, count |-> 0, values |-> <<>>]

RECURSIVE FitsRepeated(_, _, _, _)
\* Fits with the retries of the repeatable sub-rules; as_attempt tells
\* whether a retry takes the mode of the sub-rule's first attempt
FitsRepeated(id, i, s, as_attempt) ==
  IF i > Len(Rules[id].rules) THEN [ok |-> TRUE, count |-> 0]
  ELSE LET k == SkipsAhead(s)
           m == MatchRule(Rules[id].rules[i].r, After(s, k))
           t == IF Rules[id].rules[i].rep
                THEN Retries(id, i, m.s, as_attempt /\ i = 1)
                ELSE [s |-> m.s, count |-> 0, values |-> <<>>]
           r == FitsRepeated(id, i + 1, t.s, as_attempt)
       IN  IF Accepts(ModeOf(Rules[id].skip, i = 1), k) /\ m.ok /\ r.ok
           THEN [ok |-> TRUE, count |-> k + m.count + t.count + r.count]
           ELSE [ok |-> FALSE, count |-> 0]

(***************************************************************************)
(* C15  Retries of a repeatable sub-rule, as claimed: each retry applies   *)
(* the skip requirement of the sub-rule's first attempt, also when the     *)
(* sub-rule is the first of the Sequence.                                  *)
(***************************************************************************)
C15_RetryAsFirstAttempt ==
  [][ MatchStep(MandatoryRules)
        => LET f == FitsRepeated(ret'.rule, 1, Cur, TRUE)
           IN  ret'.ok = f.ok /\ ret'.count = f.count ]_pvars

(***************************************************************************)
(* C15  Retries of a repeatable sub-rule, as the code has them: each retry *)
(* applies the skip requirement of a later position, which is that of the  *)
(* first attempt unless the sub-rule is the first of the Sequence.         *)
(***************************************************************************)
C15_RetryAsLater ==
  [][ MatchStep(MandatoryRules)
        => LET f == FitsRepeated(ret'.rule, 1, Cur, FALSE)
           IN  ret'.ok = f.ok /\ ret'.count = f.count ]_pvars

\* 'foo foo' and a NORMAL Sequence whose first sub-rule is repeatable: the
\* first attempt matched without a skip token, the retry did not
C15_Witness ==
  /\ ret.op = "match" /\ ret.rule = "Foo2" /\ ret.ok /\ ret.count = 1
  /\ given = <<T.foo>>
  /\ NextSeq(Cur, 2) = <<T.foo, END>>

\* the Sequences that have an optional sub-rule
OptionalRules == AndRules \ MandatoryRules

RECURSIVE FitsOptional(_, _, _, _)
\* the sub-rules of a Sequence from the i-th on: an optional sub-rule that
\* does not match behind the skip tokens ahead of it, or whose position does
\* not accept their number, is left out, and the next one is attempted at
\* the same place of the stream with the values collected so far
FitsOptional(id, i, s, values) ==
  IF i > Len(Rules[id].rules)
  THEN [ok |-> TRUE, count |-> 0, value |-> AndProcess(values)]
  ELSE LET sub == Rules[id].rules[i]
           k == SkipsAhead(s)
           m == MatchRule(sub.r, After(s, k))
           t == IF sub.rep THEN Retries(id, i, m.s, FALSE)
                ELSE [s |-> m.s, count |-> 0, values |-> <<>>]
           r == FitsOptional(id, i + 1, t.s, values \o <<m.value>> \o t.values)
       IN  IF Accepts(ModeOf(Rules[id].skip, i = 1), k) /\ m.ok
           THEN IF r.ok
                THEN [r EXCEPT !.count = k + m.count + t.count + r.count]
                ELSE r
           ELSE IF sub.opt THEN FitsOptional(id, i + 1, s, values)
           ELSE [ok |-> FALSE, count |-> 0, value |-> None]

(***************************************************************************)
(* C16  Optional sub-rule: when an optional sub-rule of a Sequence fails,  *)
(* the Sequence goes on, the sub-rule contributes no value, and the skip   *)
(* tokens consumed ahead of the attempt are back in the stream, so that    *)
(* the following sub-rule is attempted from the same place with its own    *)
(* skip check: the result, the value and the count of the match are those  *)
(* of the Sequence read that way.                                          *)
(***************************************************************************)
C16_OptionalFailure ==
  [][ MatchStep(OptionalRules)
        => LET f == FitsOptional(ret'.rule, 1, Cur, <<>>)
           IN  /\ ret'.ok = f.ok
               /\ ret'.value = f.value
               /\ ret'.count = f.count
               /\ given' = given \o NextSeq(Cur, f.count) ]_pvars

\* a name and white space: both optional sub-rules of NameLteBar failed
\* behind the white space, which the end-of-input leaf then skipped
C16_Witness ==
  /\ ret.op = "match" /\ ret.rule = "NameLteBar" /\ ret.ok /\ ret.count = 3
  /\ ret.value = AndProcess(<<"foo", None>>)
  /\ given = <<T.foo, T.ws, END>>
  /\ ret.rew >= 2

\* the end-of-input leaves, and the Sequences whose last sub-rule is one
EndLeaves == { id \in RuleIds : Rules[id].k = "E" }

EndRules ==
  { id \in AndRules :
      /\ Rules[id].rules # <<>>
      /\ Last(Rules[id].rules).r \in EndLeaves
      /\ ~Last(Rules[id].rules).opt }

RECURSIVE ToSentinel(_)
\* the number of calls of next() up to the first that returns the sentinel
ToSentinel(s) ==
  IF SNext(s).tok = END THEN 1 ELSE 1 + ToSentinel(SNext(s).s)

(***************************************************************************)
(* C17  End of input: the leaf E matches exactly when the next token is    *)
(* the sentinel.  So a Sequence whose last sub-rule is E, when it matches, *)
(* has consumed every token up to and including the first sentinel, each   *)
(* token before it by an earlier sub-rule or as a skip token; it reports   *)
(* no match and consumes nothing otherwise, as when a token that is not a  *)
(* skip token is left before the sentinel.                                 *)
(***************************************************************************)
C17_EndOfInput ==
  [][ /\ MatchStep(EndLeaves)
         => /\ ret'.ok = (NextSeq(Cur, 1) = <<END>>)
            /\ ret'.count = IF ret'.ok THEN 1 ELSE 0
      /\ MatchStep(EndRules)
         => IF ret'.ok
            THEN /\ ret'.count = ToSentinel(Cur)
                 /\ given' = given \o NextSeq(Cur, ret'.count)
            ELSE Untouched /\ ret'.count = 0 ]_pvars

\* test_composed_rule: ThisFooBar has consumed 'this { foo bar }  ' and the
\* sentinel, the white space before the sentinel as skip tokens
C17_Witness ==
  /\ ret.op = "match" /\ ret.rule = "ThisFooBar" /\ ret.ok
  /\ ret.count = 11
  /\ given = <<T.this, T.ws, T.ob, T.ws, T.foo, T.ws, T.bar, T.ws, T.cb, T.ws2, END>>

\* the text that resolve_macro gives for a name on the present stack
BodyOf(name) ==
  IF Holders(stack, name) = {} THEN "" ELSE stack[Innermost(name)].macros[name]

(***************************************************************************)
(* C18  Expansion is textual and comes before tokenization: a call that    *)
(* closes without an exception returns no token; it pushes a buffer whose  *)
(* text is the text accumulated before the call, the macro body and the    *)
(* rest of the line, of which nothing is scanned yet, and sets the mode to *)
(* PREPROCESSOR; and no pass made in PREPROCESSOR or MACRO_EXPANSION mode  *)
(* returns a token to the consumer.                                        *)
(***************************************************************************)
C18_TextualExpansion ==
  [][ /\ (out'.op = "CallEnd" /\ out'.res # "raise")
         => /\ out'.res = "more"
            /\ Len(stack') = Len(stack) + 1
            /\ stack'[Len(stack')].rest
                 = X(AfterScan(LCur)).acc \o BodyOf(TopX.n_call.name)
                     \o Remaining(X(AfterScan(LCur)))
            /\ stack'[Len(stack')].string = ""
            /\ stack'[Len(stack')].acc = ""
            /\ stack'[Len(stack')].tmode = "PREPROCESSOR"
            /\ mode' = "PREPROCESSOR"
      /\ out'.res = "token" => mode \notin {"PREPROCESSOR", "MACRO_EXPANSION"} ]_vars

\* CASE_MACRO_CONCAT_1: the text around the call b${foo}r has joined the
\* body of foo, and the lexer returns the one Name 'bar'
C18_Witness ==
  /\ source = FromText("macro foo [a]\nb${foo}r x \"f${foo}a\"\n")
  /\ out.res = "token"
  /\ out.tok = LTok("Name", "bar")

(***************************************************************************)
(* C19  Positional arguments: ${N} in a macro body is replaced by the N-th *)
(* argument of the call of that macro.  In the text below the body of m    *)
(* calls n with the argument q and then refers to ${1}; m is called with   *)
(* the argument a, so the reference in the body of m is replaced by a and  *)
(* the one in the body of n by q: no exception is raised and the Names     *)
(* returned are xq and a.                                                  *)
(***************************************************************************)
C19_PositionalArguments ==
  source = FromText("macro n [x${1}]\nmacro m [${n \"q\"} ${1}]\n${m \"a\"}\n")
    => /\ out.res # "raise"
       /\ (out.res = "token" /\ out.tok.kind = "Name")
            => out.tok.text \in {"xq", "a"}

(***************************************************************************)
(* C20  A call over several lines: a call whose arguments and closing      *)
(* brace stand on the lines that follow is expanded and raises nothing,    *)
(* whatever precedes it on its first line.  In the text below another call *)
(* precedes it: no pass of the lexer raises an exception.                  *)
(***************************************************************************)
C20_CallAcrossLines ==
  source = FromText("macro k [B${1}]\n${k \"p\"} ${k\n \"x\"\n}\n")
    => out.res # "raise"

\* this pass returns a MultilineStringEnd token to a waiting capture of a
\* multiline string
EndSeen ==
  /\ Capturing("string")
  /\ out'.op = "ReturnToken"
  /\ out'.scanned.kind = "MultilineStringEnd"

C22_VerbatimCapture ==
  source = FromText("foo -8<- a\n  b # x\n   c ->8-\nbar\n")
    => ((out.res = "token" /\ out.tok.kind = "MultilineString")
          => Value(out.tok) = "a\n b # x\n  c ")

\* this pass returns a token of the kind to a waiting capture of a macro body
BodySees(kind) ==
  /\ Capturing("definition")
  /\ out'.op = "ReturnToken"
  /\ out'.scanned.kind = kind

\* the step changes no macro table of a Context that stays on the stack
TablesKept ==
  \A k \in 1..Len(stack) : k <= Len(stack') => stack'[k].macros = stack[k].macros

(***************************************************************************)
(* C23  Nested definitions.  While a macro body is captured, a definition  *)
(* start adds 1 to the counter and a definition end seen with the counter  *)
(* above 0 takes 1 from it; both are appended to the body as the text they *)
(* matched, open no capture of their own and change no macro table.  The   *)
(* body ends at the first definition end seen with the counter at 0, and   *)
(* no other pass ends it; the one entry made then is the captured text     *)
(* under the name of the outer definition.  A capture opens only at a      *)
(* definition start scanned in PREPROCESSOR mode, so a nested definition   *)
(* enters a table only when the text that holds it is scanned again.       *)
(***************************************************************************)
C23_NestedDefinitions ==
  [][ /\ BodySees("MacroDefinitionStart")
         => /\ Len(frames') = Len(frames)
            /\ frames'[Len(frames)].nesting = frames[Len(frames)].nesting + 1
            /\ frames'[Len(frames)].text
                 = frames[Len(frames)].text \o out'.scanned.text
            /\ TablesKept
      /\ (BodySees("MacroDefinitionEnd") /\ frames[Len(frames)].nesting > 0)
         => /\ Len(frames') = Len(frames)
            /\ frames'[Len(frames)].nesting = frames[Len(frames)].nesting - 1
            /\ frames'[Len(frames)].text
                 = frames[Len(frames)].text \o out'.scanned.text
            /\ TablesKept
      /\ (BodySees("MacroDefinitionEnd") /\ frames[Len(frames)].nesting = 0)
         => /\ frames' = SubSeq(frames, 1, Len(frames) - 1)
            /\ \E k \in 1..Len(stack) :
                 /\ stack'[k].macros
                      = (frames[Len(frames)].macro_name :> frames[Len(frames)].text)
                          @@ stack[k].macros
                 /\ \A j \in 1..Len(stack) \ {k} : stack'[j].macros = stack[j].macros
      /\ Defines => (BodySees("MacroDefinitionEnd") /\ frames[Len(frames)].nesting = 0)
      /\ ~Defines => TablesKept
      /\ (Len(frames') > Len(frames) /\ frames'[Len(frames')].kind = "definition")
         => /\ mode = "PREPROCESSOR"
            /\ out'.op = "DefinitionStart"
            /\ frames'[Len(frames')].nesting = 0
            /\ frames'[Len(frames')].macro_name
                 = MacroDefinitionName(out'.scanned.text) ]_vars

\* CASE_NESTED_MACRO_DEFINITION_1: the definition of foo has ended at the
\* second definition end; its body holds the definition of bar as written,
\* and no table has bar
C23_Witness ==
  /\ source = FromText("macro foo [\n  a\n  macro bar [b\n  e]\n  f\n  ${bar}\n]\n${foo}\n")
  /\ out.op = "ReturnToken"
  /\ out.scanned.kind = "MacroDefinitionEnd"
  /\ frames = <<>>
  /\ stack[1].macros = ("foo" :> "\n  a\n  macro bar [b\n  e]\n  f\n  ${bar}\n")
  /\ Holders(stack, "bar") = {}

\* the Context in whose table a definition that ends now is stored
Scope == IF FileContexts(stack) = {} THEN Len(stack) ELSE Greatest(FileContexts(stack))

\* this pass ends a definition whose name its scope holds already
Redefines ==
  /\ Defines
  /\ frames[Len(frames)].macro_name \in DOMAIN stack[Scope].macros

\* the stack the pass leaves but for the macro tables: the closer is taken
\* from the text and the tokenizer is set for PREPROCESSOR
AfterCloser == SetMode(AfterScan(LCur), "PREPROCESSOR").stack

(***************************************************************************)
(* C24  Redefinition.  When a definition ends whose name its scope holds   *)
(* already, the entry of that name becomes the new body, so that a call of *)
(* the name now resolves to it, and nothing else differs from what the     *)
(* pass does to the lexer apart from the table: the other entries, the     *)
(* other tables, the texts, the mode and the depth.  When the new body is  *)
(* the old one the table is as it was, so the lexer is in the state it     *)
(* would be in without the redefinition, and goes on as from that state.   *)
(***************************************************************************)
C24_Redefinition ==
  [][ Redefines =>
        LET name == frames[Len(frames)].macro_name
            body == frames[Len(frames)].text
        IN  /\ stack' = [AfterCloser EXCEPT ![Scope].macros = [@ EXCEPT ![name] = body]]
            /\ stack'[Greatest(Holders(stack', name))].macros[name] = body
            /\ body = stack[Scope].macros[name] => stack' = AfterCloser
            /\ mode' = "PREPROCESSOR"
            /\ in_multiline_string' = in_multiline_string
            /\ frames' = SubSeq(frames, 1, Len(frames) - 1)
            /\ out'.res = "more" ]_vars

\* m was defined as A, then as B, called, defined as B again and called: the
\* last call has closed and the buffer pushed for it holds the body B
C24_Witness ==
  /\ source = FromText("macro m [ A ]\nmacro m [ B ]\n${m}\nmacro m [ B ]\n${m}\n")
  /\ out.op = "CallEnd"
  /\ out.res = "more"
  /\ Len(stack) = 2
  /\ stack[1].rest = ""
  /\ stack[1].macros = ("m" :> " B ")
  /\ TopX.rest = " B \n"

(***************************************************************************)
(* C25  The stack is never empty: it has a Context after construction and  *)
(* after every pass; a pass takes a Context off only when more than one is *)
(* there, and then takes one; and None is returned to the consumer only    *)
(* when one Context is there and its tokenizer and line stream have        *)
(* nothing left, and the stack stays as it is.                             *)
(***************************************************************************)
C25_StackNeverEmpty ==
  /\ Len(stack) >= 1
  /\ [][ /\ Len(stack') >= 1
         /\ Len(stack') < Len(stack)
            => /\ Len(stack) > 1
               /\ Len(stack') = Len(stack) - 1
               /\ out'.op = "PopContext"
               /\ LineEnded
         /\ out'.res = "none"
            => /\ Len(stack) = 1
               /\ LineEnded
               /\ stack' = stack ]_vars

\* CASE_MACRO_BASIC: after the buffers of the last line were popped one by
\* one, None is returned on the one Context left
C25_Witness ==
  /\ source = FromText("macro foo [ bar ]\n${foo} bin ${foo}\n")
  /\ out.op = "EndOfInput"
  /\ out.res = "none"
  /\ Len(stack) = 1
  /\ LineEnded

\* the string and the position the tokenizer of the current Context scans at
\* in the next pass: an exhausted tokenizer is given the next line first
ScanString == IF Exhausted(TopX) THEN ReadLine(TopX.rest) ELSE TopX.string

ScanPosition == IF Exhausted(TopX) THEN 0 ELSE TopX.position

\* the places in the active list of the kinds whose pattern matches there
Matches ==
  { k \in 1..Len(MODE_TOKENS[TopX.tmode]) :
      MatchLen(MODE_TOKENS[TopX.tmode][k], ScanString, ScanPosition) >= 0 }

(***************************************************************************)
(* C26  Tokenizer priority.  In a pass that scans, when no kind of the     *)
(* active list matches at the position no token is returned and the        *)
(* position stays; otherwise the token is of the first kind of the list    *)
(* that matches at the position, its text is what that kind's pattern      *)
(* matches from the position on, whatever a later kind would match, and    *)
(* the position moves on by the length of that text (seen in the passes    *)
(* that leave the Context on top of the stack).                            *)
(***************************************************************************)
C26_TokenizerPriority ==
  [][ out'.op \notin {"ExpansionExhausted", "PopContext", "StringExhausted",
                      "EndOfInput"}
      => /\ IF Matches = {}
            THEN out'.scanned = NoToken
            ELSE LET kind == MODE_TOKENS[TopX.tmode][Least(Matches)]
                 IN  /\ out'.scanned.kind = kind
                     /\ out'.scanned.text
                          = Slice(ScanString, ScanPosition,
                                  ScanPosition + MatchLen(kind, ScanString, ScanPosition))
         /\ Len(stack') = Len(stack)
            => /\ stack'[Len(stack)].string = ScanString
               /\ stack'[Len(stack)].position
                    = ScanPosition + Len(out'.scanned.text) ]_vars

\* the closer of the string of file d/c was scanned: MultilineStringEnd is the
\* first kind of the list and matches 4 characters, where the second kind,
\* MultilineStringContent, matches the whole line
C26_Witness ==
  /\ out.scanned = LTok("MultilineStringEnd", "->8-")
  /\ TopX.string = "->8- y\n"
  /\ TopX.position = 4
  /\ M_MultilineStringContent(TopX.string, 0) = 7
  /\ TopX.tmode = "DEFAULT"

(***************************************************************************)
(* C27  as the specification states it: when the current Context has       *)
(* nothing left while the mode is MULTILINE_STRING, the next pass raises   *)
(* UnexpectedEndOfInput and pops no Context, however deep the stack.       *)
(***************************************************************************)
C27_StringExhaustedAnyDepth ==
  [][ (Running /\ mode = "MULTILINE_STRING" /\ LineEnded)
      => (/\ out'.res = "raise"
          /\ out'.err = "UnexpectedEndOfInput"
          /\ stack' = stack) ]_vars

(***************************************************************************)
(* C27  as the code has it: when the current Context has nothing left      *)
(* while the mode is MULTILINE_STRING, the next pass pops it if more than  *)
(* one Context is on the stack, raising nothing and going on in            *)
(* PREPROCESSOR mode with the capture still waiting, and raises            *)
(* UnexpectedEndOfInput, leaving the stack, only if it is the last one.    *)
(***************************************************************************)
C27_StringExhaustedLast ==
  [][ (Running /\ mode = "MULTILINE_STRING" /\ LineEnded)
      => IF Len(stack) > 1
         THEN /\ out'.op = "PopContext"
              /\ out'.res = "more"
              /\ out'.err = ""
              /\ Len(stack') = Len(stack) - 1
              /\ \A k \in 1..Len(stack') :
                   stack'[k] = IF k = Len(stack')
                               THEN [stack[k] EXCEPT !.tmode = "PREPROCESSOR"]
                               ELSE stack[k]
              /\ mode' = "PREPROCESSOR"
              /\ frames' = frames
         ELSE /\ out'.res = "raise"
              /\ out'.err = "UnexpectedEndOfInput"
              /\ stack' = stack ]_vars

\* CASE_MULTILINE_STRING_1: the buffer of the line that opens the string has
\* been popped in MULTILINE_STRING mode, the capture waits with the end of
\* that line, and the lines of the string are still to come
C27_Witness ==
  /\ source = FromText("foo -8<-\n  a\n    b\n->8-\nbar\n")
  /\ out.op = "PopContext"
  /\ out.res = "more"
  /\ Len(stack) = 1
  /\ mode = "PREPROCESSOR"
  /\ in_multiline_string = 1
  /\ Capturing("string")
  /\ frames[1].text = "\n"
  /\ stack[1].rest = "  a\n    b\n->8-\nbar\n"

\* this pass opens a capture of a multiline string, and this one finishes one
Opens == Len(frames') > Len(frames) /\ frames'[Len(frames')].kind = "string"

Finishes == Capturing("string") /\ Len(frames') < Len(frames)

C29_ConsumedCount ==
  [][ ret'.op = "match"
      => IF ret'.ok
         THEN /\ ret'.count = Len(given') - Len(given)
              /\ given' = given \o NextSeq(Cur, ret'.count)
         ELSE ret'.count = 0 ]_pvars

\* ThisBrace has matched 'this {': the count 3 is the two tokens of its
\* sub-rules and the white space skipped between them
C29_Witness ==
  /\ ret.op = "match"
  /\ ret.rule = "ThisBrace"
  /\ ret.ok
  /\ ret.count = 3
  /\ given = <<T.this, T.ws, T.ob>>

(***************************************************************************)
(* C30  The values a Sequence gives its reducer.  After a successful match *)
(* of a Sequence the value is the reducer's result on the values of the    *)
(* successful attempts of its sub-rules, one each, in the order of the     *)
(* attempts: those of a first attempt and of each successful retry of a    *)
(* repeatable sub-rule side by side, none for an optional sub-rule that    *)
(* failed and none for the retry that failed; and the tokens consumed are  *)
(* those of the successful attempts alone, so the failed retry took none.  *)
(***************************************************************************)
C30_ReducerValues ==
  [][ (MatchStep(AndRules) /\ ret'.ok)
        => LET f == FitsOptional(ret'.rule, 1, Cur, <<>>)
           IN  /\ f.ok
               /\ ret'.value = f.value
               /\ given' = given \o NextSeq(Cur, f.count) ]_pvars

\* test_and_rule_repeatable: Foo2 on 'foo foo foo bar' has given its reducer
\* three values; the retry that failed on bar gave none, and the white space
\* it had skipped is the next token again
C30_Witness ==
  /\ ret.op = "match"
  /\ ret.rule = "Foo2"
  /\ ret.ok
  /\ ret.value = AndProcess(<<AndProcess(<<"foo">>), AndProcess(<<"foo">>),
                              AndProcess(<<"foo">>)>>)
  /\ ret.count = 5
  /\ given = <<T.foo, T.ws, T.foo, T.ws, T.foo>>
  /\ NextSeq(Cur, 2) = <<T.ws, T.bar>>

RECURSIVE BlockValue(_)
\* the value of a block that holds k blocks, one in the other: what the
\* reducer makes of the two braces and, between them, the value of the block
\* inside
BlockValue(k) ==
  IF k = 0 THEN AndProcess(<<"{", "}">>)
  ELSE AndProcess(<<"{", BlockValue(k - 1), "}">>)

(***************************************************************************)
(* C31  Self.  The rule list of a Sequence that was written with the       *)
(* marker Self has, in the marker's place, an optional and repeatable      *)
(* instance of the Sequence itself; so the Sequence matches a block with   *)
(* no block inside and a block with blocks nested to any depth that the    *)
(* stream holds, consuming all its tokens, and the value of each nested    *)
(* block is built as that of the outer one.                                *)
(***************************************************************************)
C31_SelfReference ==
  /\ Rules["Block"].rules[3] = OptRep("Block")
  /\ [][ MatchStep({"Block"})
         => \A k \in 0..MaxNest :
              NextSeq(Cur, Len(Nested(k))) = Nested(k)
                => /\ ret'.ok
                   /\ ret'.value = BlockValue(k)
                   /\ ret'.count = Len(Nested(k))
                   /\ given' = given \o Nested(k) ]_pvars

\* Block has matched the deepest nesting of the streams
C31_Witness ==
  /\ ret.op = "match"
  /\ ret.rule = "Block"
  /\ ret.ok
  /\ MaxNest >= 1
  /\ ret.value = BlockValue(MaxNest)
  /\ given = Nested(MaxNest)


(***************************************************************************)
(* C32  The depth counter during a capture: while an activation of the     *)
(* capture of a multiline string waits, and no exception has ended the     *)
(* lexer's use, in_multiline_string is at least 1.                         *)
(***************************************************************************)
C32_DepthDuringCapture ==
  (Running /\ \E i \in 1..Len(frames) : frames[i].kind = "string")
    => in_multiline_string >= 1

\* the next pass scans a token: the lexer is in use and the current Context
\* has text left in its tokenizer or in its line stream
WillScan == Running /\ ~LineEnded

(***************************************************************************)
(* C33  The tokenizer follows the mode: whenever the next pass scans a     *)
(* token, the list of kinds of the current Context's tokenizer is the list *)
(* of the lexer's mode.                                                    *)
(***************************************************************************)
C33_TokenizerFollowsMode == WillScan => TopX.tmode = mode

\* a buffer was popped while the capture of a string waits: the tokenizer of
\* the source, which is now the current Context, scans the next line with the
\* PREPROCESSOR list
C33_Witness ==
  /\ out.op = "PopContext"
  /\ Capturing("string")
  /\ WillScan
  /\ Len(stack) = 1
  /\ mode = "PREPROCESSOR"
  /\ TopX.tmode = "PREPROCESSOR"

(***************************************************************************)
(* C34  A scan always finds a token: no pass ends because the tokenizer    *)
(* of the current Context returned no token, whatever the mode and the     *)
(* position in the line.                                                   *)
(***************************************************************************)
C34_ScanNeverFails == out.op # "ScanFails"

(***************************************************************************)
(* C35  No preprocessed text is lost: when a pass pops the current Context *)
(* or returns the sentinel at the end of the last one, the accumulator of  *)
(* that Context is empty, so all the text it took in PREPROCESSOR mode was *)
(* pushed as a buffer.                                                     *)
(***************************************************************************)
C35_NoTextLost ==
  [][ out'.op \in {"PopContext", "EndOfInput"} => TopX.acc = "" ]_vars

\* the kinds of the tokens the consumer is given as they were scanned
Passed == { MODE_TOKENS["DEFAULT"][k] : k \in 1..Len(MODE_TOKENS["DEFAULT"]) }
            \ {"MultilineStringStart"}

(***************************************************************************)
(* C36  What reaches the consumer: a pass that returns a token to the      *)
(* consumer either returns the token it scanned, scanned in DEFAULT mode   *)
(* and of a kind of the DEFAULT list other than the opener of a string, or *)
(* returns the MultilineString of the capture that this pass completes,    *)
(* whose text is what the capture gathered.  Everything else it returns is *)
(* the sentinel.                                                           *)
(***************************************************************************)
C36_ConsumerTokens ==
  [][ /\ out'.res = "token"
        => \/ /\ out'.tok = out'.scanned
              /\ mode = "DEFAULT"
              /\ frames = <<>>
              /\ out'.tok.kind \in Passed
           \/ /\ out'.tok.kind = "MultilineString"
              /\ out'.scanned.kind = "MultilineStringEnd"
              /\ Len(frames) = 1 /\ Capturing("string")
              /\ frames' = <<>>
              /\ out'.tok.text = frames[1].text
      /\ out'.res = "none" => out'.tok = NoneTok ]_vars

\* the string of CASE_MULTILINE_STRING_2 was returned to the consumer, who
\* has seen nothing of the passes in PREPROCESSOR and MULTILINE_STRING mode
\* that gathered it
C36_Witness ==
  /\ source = FromText("foo -8<- a\n  b # x\n   c ->8-\nbar\n")
  /\ out.res = "token"
  /\ out.tok.kind = "MultilineString"
  /\ out.scanned = LTok("MultilineStringEnd", "->8-")
  /\ frames = <<>>
  /\ mode = "DEFAULT"

(***************************************************************************)
(* C37  Matching terminates: every call of match returns, whatever the     *)
(* rule, its skip behavior and the stream; no call enters a retry loop of  *)
(* a repeatable sub-rule that does not end.                                *)
(***************************************************************************)
C37_MatchReturns == ret.op # "loop"

(***************************************************************************)
(* C38  The assertion of rewind: in a call of match on any rule of the     *)
(* table, whatever the history and the look-ahead of the stream when the   *)
(* call is made, every rewind(n) the call issues finds at least n tokens   *)
(* in the history.  (A call is one step: no flush comes between its        *)
(* rewinds.)                                                               *)
(***************************************************************************)
C38_RewindAsserted ==
  [][ ret'.op \in {"match", "loop"} => ~ret'.fault ]_pvars

\* a match that failed on a stream with an empty history, after taking three
\* tokens or more: its rewinds have emptied the history again, so the last of
\* them asked for all the tokens that were there
C38_Witness ==
  /\ ret.op = "match" /\ ~ret.ok
  /\ ret.rew >= 3
  /\ given = <<>>
  /\ ~ret.fault

(***************************************************************************)
(* C39  The call of a MacroArgument: whenever a pass in PREPROCESSOR mode  *)
(* has scanned a MacroArgument, the current Context has a call (c_call is  *)
(* not None), so the argument can be looked up.                            *)
(***************************************************************************)
C39_ArgumentHasCall ==
  [][ out'.op = "Argument" => TopX.c_call.some ]_vars

(***************************************************************************)
(* C40  The end of the stream is stable: once a pass has returned None to  *)
(* the consumer, every later pass returns None again, raises nothing and   *)
(* leaves the stack, the mode, the counter and the waiting activations as  *)
(* they were.                                                              *)
(***************************************************************************)
C40_EndStable ==
  [][ out.res = "none"
      => /\ out'.res = "none" /\ out'.tok = NoneTok /\ out'.op = "EndOfInput"
         /\ stack' = stack
         /\ mode' = mode
         /\ in_multiline_string' = in_multiline_string
         /\ frames' = frames ]_vars

\* None was returned at the end of file d/a, after the tokens of its macro
\* call, and the lexer can be called again: the call takes the same branch
C40_Witness ==
  /\ source = FromFile("d/a")
  /\ out.res = "none"
  /\ out.op = "EndOfInput"
  /\ Takes("EndOfInput")
  /\ Len(stack) = 1
  /\ frames = <<>>

=============================================================================
